---------------------------- MODULE Spec2Model ----------------------------
(***************************************************************************)
(* A model of the agenda-pareja web application: the Quito-time helpers    *)
(* of the dashboard (app/dashboard/page.tsx), the calendar's list of the   *)
(* selected day, and the event lifecycle against the hosted store          *)
(* (events, reviews, photos, videos rows and the storage buckets).         *)
(*                                                                         *)
(* Conventions.                                                            *)
(*  - A JavaScript string is a sequence of one-character strings, so that  *)
(*    split, padStart, Number and template literals are computed as the    *)
(*    code computes them.                                                  *)
(*  - An instant (a Date's time value) is counted in minutes since         *)
(*    1970-01-01T00:00Z: every instant the program builds has zero seconds *)
(*    and milliseconds (Date.UTC(..., mi, 0, 0)).                          *)
(*  - An asynchronous handler in flight is a task.  Each await is a step    *)
(*    boundary: a step is the handler's code from the response it waited   *)
(*    for up to its next call, together with that call's effect at the     *)
(*    store; the call's result waits in the task until the next step.      *)
(***************************************************************************)
EXTENDS Integers, Sequences, FiniteSets, TLC

VARIABLES
    \* ---- the conversion helpers, applied to drawn inputs
    tpc,        \* position of the run of the helpers
    wall,       \* a datetime-local value "YYYY-MM-DDTHH:mm"
    iso,        \* toIsoFromLocalDatetime(wall), once computed
    back,       \* toLocalInputFromIso(iso), once computed
    instA,      \* an instant
    instB,      \* another instant
    keyA,       \* ymdInQuito(instA), once computed
    keyB,       \* ymdInQuito(instB), once computed
    \* ---- a user's dashboard page (DashboardPage's state), per user
    events,         \* the loaded events, in the order the store returned them
    selectedDay,    \* the calendar's selected day, a Date
    viewerTz,       \* the browser's zone: minutes its clock is ahead of UTC
    pickedDay,      \* the civil day <<y, m, d>> last clicked in the day picker
    loading,        \* the page's loading flag
    reviewOpen,     \* the review-and-photos modal is shown
    reviewEvent,    \* the event row the modal was opened for, or NULL
    savingReview,   \* busy flag of saveReview
    uploading,      \* busy flag of uploadPhotosFromModal
    rating,         \* the modal's rating field
    reviewText,     \* the modal's text area
    photos,         \* the photo rows the modal shows
    \* ---- the avatar modal of the dashboard, per user
    avatarOpen,     \* the avatar modal is shown
    avatarFile,     \* the image chosen, or NULL
    avatarPreview,  \* the preview's object URL, or NULL
    savingAvatar,   \* busy flag of saveAvatar and removeAvatar
    objectUrls,     \* the browser's object URLs: created and not revoked
    urlCount,       \* how many object URLs the browsers have created
    profiles,       \* per user: avatar_url of the profiles row, or NULL
    \* ---- a user's event detail page (EventDetailPage's state), per user
    pageEventId,    \* the route's id
    pageEvent,      \* the loaded event row, or NULL
    pageVideos,     \* the loaded video rows
    pageLoading,    \* the page's loading flag
    uploadingVideos,\* busy flag of uploadVideos
    pagePhotos,     \* the loaded photo rows (photos), newest first
    activeIndex,    \* the index of the photo the lightbox shows
    lightboxOpen,   \* the lightbox is shown
    \* ---- a user's new-event page (NewEventPage's state), per user
    title,          \* the form's title
    location,       \* the form's location
    link,           \* the form's link
    cover,          \* the cover file chosen, or NULL
    msg,            \* the form's message, or NULL
    saving,         \* busy flag of createEvent
    \* ---- the browser of each user
    page,           \* the page shown: "dashboard", "event", "new", "login",
                    \* or "closed" when the user has the application closed
    session,        \* whether the auth service holds a session of the user
    tasks,          \* the handlers in flight, by slot
    \* ---- the hosted store
    tblEvents,      \* the rows of table events
    tblReviews,     \* the rows of table reviews
    tblPhotos,      \* the rows of table photos
    tblVideos,      \* the rows of table videos
    objects,        \* the objects of the storage buckets
    seq,            \* how many identifiers have been drawn (makeId, row ids)
    \* ---- history, for stating the properties
    lastSave,       \* per <<event id, user>>: the rating and text of the last
                    \* saveReview that reached the store, and how many did
    toggleLog,      \* per event id: the toggleDone updates that took effect
    uncheckedWrites,\* handlers that issued a write without a session check
    started,        \* how many handlers and pages the users have started
    declined        \* the handlers whose confirm() dialog was answered Cancel

timeVars == <<tpc, wall, iso, back, instA, instB, keyA, keyB>>

calVars == <<selectedDay, viewerTz, pickedDay>>

dashVars == <<events, loading, reviewOpen, reviewEvent, savingReview, uploading>>

avatarVars == <<avatarOpen, avatarFile, avatarPreview, savingAvatar, objectUrls,
                urlCount, profiles>>

formVars == <<title, location, link, cover, msg>>

modalVars == <<rating, reviewText, photos>>

galleryVars == <<pagePhotos, activeIndex, lightboxOpen>>

pageVars == <<pageEventId, pageEvent, pageVideos, pageLoading, uploadingVideos>>

storeVars == <<tblEvents, tblReviews, tblPhotos, tblVideos, objects, seq>>

histVars == <<lastSave, toggleLog, uncheckedWrites, started, declined>>

vars == <<timeVars, calVars, dashVars, avatarVars, formVars, modalVars, galleryVars,
          pageVars, saving, page, session, tasks, storeVars, histVars>>

\* null.  A value that can be null is NULL or <<v>>; a string that can be null
\* is NULL or the string itself (the code tells them apart by truthiness, which
\* takes the empty string for null)
NULL == << >>

-----------------------------------------------------------------------------
(* JavaScript strings                                                      *)

Digits == <<"0", "1", "2", "3", "4", "5", "6", "7", "8", "9">>

DigitChar(n) == Digits[n + 1]

DigitValue(c) == CHOOSE n \in 0..9 : Digits[n + 1] = c

\* String(n) for an integer n
RECURSIVE StringOfNat(_)
StringOfNat(n) ==
    IF n < 10 THEN <<DigitChar(n)>>
    ELSE StringOfNat(n \div 10) \o <<DigitChar(n % 10)>>

StringOfInt(n) == IF n < 0 THEN <<"-">> \o StringOfNat(-n) ELSE StringOfNat(n)

\* s.padStart(len, ch)
RECURSIVE padStart(_, _, _)
padStart(s, len, ch) ==
    IF Len(s) >= len THEN s ELSE padStart(<<ch>> \o s, len, ch)

\* Number(s) for a string of decimal digits
RECURSIVE NumberOf(_)
NumberOf(s) ==
    IF Len(s) = 0 THEN 0
    ELSE 10 * NumberOf(SubSeq(s, 1, Len(s) - 1)) + DigitValue(s[Len(s)])

\* s.split(sep) for a one-character separator
RECURSIVE Split(_, _)
Split(s, sep) ==
    IF \A i \in 1..Len(s) : s[i] # sep THEN <<s>>
    ELSE LET k == CHOOSE i \in 1..Len(s) :
                     s[i] = sep /\ \A j \in 1..(i - 1) : s[j] # sep
         IN  <<SubSeq(s, 1, k - 1)>> \o Split(SubSeq(s, k + 1, Len(s)), sep)

-----------------------------------------------------------------------------
(* The Date object: days and civil dates of the proleptic Gregorian        *)
(* calendar, as ECMAScript's MakeDay, MakeTime and the getUTC* accessors   *)
(* compute them.                                                           *)

MinutesPerDay == 24 * 60

\* the day number (days since 1970-01-01) of the civil date y-m-d, m in 1..12
DaysFromCivil(y, m, d) ==
    LET yy  == IF m <= 2 THEN y - 1 ELSE y
        era == yy \div 400
        yoe == yy - era * 400
        mp  == IF m > 2 THEN m - 3 ELSE m + 9
        doy == (153 * mp + 2) \div 5 + d - 1
        doe == yoe * 365 + yoe \div 4 - yoe \div 100 + doy
    IN  era * 146097 + doe - 719468

\* the civil date <<y, m, d>> of a day number
CivilFromDays(z) ==
    LET zz  == z + 719468
        era == zz \div 146097
        doe == zz - era * 146097
        yoe == (doe - doe \div 1460 + doe \div 36524 - doe \div 146096) \div 365
        doy == doe - (365 * yoe + yoe \div 4 - yoe \div 100)
        mp  == (5 * doy + 2) \div 153
        d   == doy - (153 * mp + 2) \div 5 + 1
        m   == IF mp < 10 THEN mp + 3 ELSE mp - 9
        y   == yoe + era * 400
    IN  <<IF m <= 2 THEN y + 1 ELSE y, m, d>>

\* Date.UTC(year, monthIndex, day, hours, minutes, 0, 0), in minutes.  A year
\* of 0..99 stands for 1900 + year; hours beyond 23 carry into the day.
DateUTC(year, monthIndex, day, hours, minutes) ==
    LET yr == IF year >= 0 /\ year <= 99 THEN 1900 + year ELSE year
        ym == yr + monthIndex \div 12
        mn == monthIndex % 12
    IN  (DaysFromCivil(ym, mn + 1, 1) + day - 1) * MinutesPerDay
            + hours * 60 + minutes

getUTCFullYear(t) == CivilFromDays(t \div MinutesPerDay)[1]
getUTCMonth(t)    == CivilFromDays(t \div MinutesPerDay)[2] - 1
getUTCDate(t)     == CivilFromDays(t \div MinutesPerDay)[3]
getUTCHours(t)    == (t % MinutesPerDay) \div 60
getUTCMinutes(t)  == t % 60

\* Date.prototype.toISOString: "YYYY-MM-DDTHH:mm:ss.sssZ", the year with a
\* sign and six digits outside 0..9999
toISOString(t) ==
    LET y  == getUTCFullYear(t)
        ys == IF y >= 0 /\ y <= 9999 THEN padStart(StringOfNat(y), 4, "0")
              ELSE <<IF y < 0 THEN "-" ELSE "+">>
                       \o padStart(StringOfNat(IF y < 0 THEN -y ELSE y), 6, "0")
    IN  ys \o <<"-">> \o padStart(StringOfNat(getUTCMonth(t) + 1), 2, "0")
           \o <<"-">> \o padStart(StringOfNat(getUTCDate(t)), 2, "0")
           \o <<"T">> \o padStart(StringOfNat(getUTCHours(t)), 2, "0")
           \o <<":">> \o padStart(StringOfNat(getUTCMinutes(t)), 2, "0")
           \o <<":", "0", "0", ".", "0", "0", "0", "Z">>

\* new Date(iso).getTime() for a string toISOString wrote
DateParse(s) ==
    LET signed == s[1] = "+" \/ s[1] = "-"
        yl     == IF signed THEN 7 ELSE 4
        ya     == NumberOf(SubSeq(s, IF signed THEN 2 ELSE 1, yl))
        y      == IF s[1] = "-" THEN -ya ELSE ya
        m      == NumberOf(SubSeq(s, yl + 2, yl + 3))
        d      == NumberOf(SubSeq(s, yl + 5, yl + 6))
        hh     == NumberOf(SubSeq(s, yl + 8, yl + 9))
        mi     == NumberOf(SubSeq(s, yl + 11, yl + 12))
    IN  DaysFromCivil(y, m, d) * MinutesPerDay + hh * 60 + mi

-----------------------------------------------------------------------------
(* app/dashboard/page.tsx: datetime-local <-> ISO                          *)

\* 5 * 60 * 60 * 1000 ms, in minutes
QuitoShift == (5 * 60 * 60 * 1000) \div (60 * 1000)

toIsoFromLocalDatetime(value) ==
    LET parts    == Split(value, "T")
        datePart == parts[1]
        timePart == parts[2]
        ymd      == Split(datePart, "-")
        y        == NumberOf(ymd[1])
        m        == NumberOf(ymd[2])
        d        == NumberOf(ymd[3])
        hm       == Split(timePart, ":")
        hh       == NumberOf(hm[1])
        mi       == NumberOf(hm[2])
        utcMs    == DateUTC(y, m - 1, d, hh + 5, mi)
    IN  toISOString(utcMs)

toLocalInputFromIso(isoStr) ==
    LET d     == DateParse(isoStr)
        quito == d - QuitoShift
        yyyy  == StringOfInt(getUTCFullYear(quito))
        mm    == padStart(StringOfNat(getUTCMonth(quito) + 1), 2, "0")
        dd    == padStart(StringOfNat(getUTCDate(quito)), 2, "0")
        hh    == padStart(StringOfNat(getUTCHours(quito)), 2, "0")
        mi    == padStart(StringOfNat(getUTCMinutes(quito)), 2, "0")
    IN  yyyy \o <<"-">> \o mm \o <<"-">> \o dd \o <<"T">> \o hh \o <<":">> \o mi

-----------------------------------------------------------------------------
(* The zone QUITO_TZ = "America/Guayaquil" of Intl.DateTimeFormat: local    *)
(* mean time (-5:19:20) until 1890, Quito mean time (-5:14) until 1931,    *)
(* then -5:00, with one summer-time period at -4:00 from 1992-11-28 00:00  *)
(* to 1993-02-05 00:00 local time (the IANA rules of the zone).            *)

LmtEnd == DaysFromCivil(1890, 1, 1) * MinutesPerDay + 5 * 60 + 20
QmtEnd == DaysFromCivil(1931, 1, 1) * MinutesPerDay + 5 * 60 + 14
DstBegin == DaysFromCivil(1992, 11, 28) * MinutesPerDay + 5 * 60
DstEnd == DaysFromCivil(1993, 2, 5) * MinutesPerDay + 4 * 60

\* the whole minutes the zone's wall clock is behind UTC at instant t (the
\* 20 seconds of local mean time round up: the wall clock's minute is the
\* floor of the local time)
QuitoTzBehind(t) ==
    IF t < LmtEnd THEN 5 * 60 + 20
    ELSE IF t < QmtEnd THEN 5 * 60 + 14
    ELSE IF t >= DstBegin /\ t < DstEnd THEN 4 * 60
    ELSE 5 * 60

\* the zone's wall clock at instant t, as minutes since 1970-01-01T00:00 local
QuitoWallClock(t) == t - QuitoTzBehind(t)

\* formatToParts of the en-CA formatter {year: numeric, month: 2-digit,
\* day: 2-digit} in the zone: the parts' values
QuitoParts(t) ==
    LET c == CivilFromDays(QuitoWallClock(t) \div MinutesPerDay)
    IN  [year  |-> StringOfInt(c[1]),
         month |-> padStart(StringOfNat(c[2]), 2, "0"),
         day   |-> padStart(StringOfNat(c[3]), 2, "0")]

ymdInQuito(d) ==
    LET parts == QuitoParts(d)
    IN  parts.year \o <<"-">> \o parts.month \o <<"-">> \o parts.day


-----------------------------------------------------------------------------
(* The inputs of the conversion helpers.  A datetime-local control hands   *)
(* the handler a value "YYYY-MM-DDTHH:mm" of a valid date, the year with   *)
(* four digits from 0001 on.                                               *)

WallYears   == {50, 999, 1992, 2024, 2026}
WallMonths  == {1, 2, 12}
WallDays    == {1, 28, 29, 31}
WallHours   == {0, 18, 19, 23}
WallMinutes == {0, 59}

IsLeap(y) == (y % 4 = 0 /\ y % 100 # 0) \/ y % 400 = 0

DaysInMonth(y, m) ==
    IF m = 2 THEN (IF IsLeap(y) THEN 29 ELSE 28)
    ELSE IF m \in {4, 6, 9, 11} THEN 30 ELSE 31

\* the value of the datetime-local control showing y-m-d hh:mi
WallString(y, m, d, hh, mi) ==
    padStart(StringOfNat(y), 4, "0") \o <<"-">> \o padStart(StringOfNat(m), 2, "0")
        \o <<"-">> \o padStart(StringOfNat(d), 2, "0")
        \o <<"T">> \o padStart(StringOfNat(hh), 2, "0")
        \o <<":">> \o padStart(StringOfNat(mi), 2, "0")

WallInputs ==
    { WallString(y, m, d, hh, mi) :
        <<y, m, d, hh, mi>> \in
            { q \in WallYears \X WallMonths \X WallDays \X WallHours \X WallMinutes :
                q[3] <= DaysInMonth(q[1], q[2]) } }

\* instants around the zone's midnight, in the present and in the zone's
\* summer-time period
InstantInputs ==
    { DaysFromCivil(q[1], q[2], q[3]) * MinutesPerDay + q[4] * 60 + q[5] :
        q \in {2026} \X {2} \X {7, 8} \X {4, 5, 21} \X {0, 1, 59}
              \cup {1992} \X {11, 12} \X {15, 28} \X {3, 4, 5} \X {0, 30}
              \cup {1993} \X {2} \X {5} \X {3, 4, 5} \X {0, 30} }

\* how far apart the two instants of a comparison lie, in minutes
InstantGaps == {0, 1, 2, 60, 24 * 60}

-----------------------------------------------------------------------------
(* DashboardPage: the calendar tab                                         *)

Users == {"u1", "u2"}

\* the elements of a list
Range(list) == {list[i] : i \in 1..Len(list)}

\* new Date(e.date_start).getTime()
TimeOf(date_start) == DateParse(date_start)

eventsWithDate(u) == SelectSeq(events[u], LAMBDA e : e.date_start # NULL)

eventsNoDate(u) == SelectSeq(events[u], LAMBDA e : e.date_start = NULL)

\* the cards of the calendar tab's "Salidas sin fecha":
\* eventsNoDate.slice(0, 8).map(...)
UndatedLimit == 8

UndatedCards(u) ==
    SubSeq(eventsNoDate(u), 1,
           IF Len(eventsNoDate(u)) < UndatedLimit THEN Len(eventsNoDate(u))
           ELSE UndatedLimit)

\* the comparator of the sort: da - db
CompareStartReversed(a, b) ==
    (IF b.date_start # NULL THEN TimeOf(b.date_start) ELSE 0)
        - (IF a.date_start # NULL THEN TimeOf(a.date_start) ELSE 0)

CompareStart(a, b) ==
    (IF a.date_start # NULL THEN TimeOf(a.date_start) ELSE 0)
        - (IF b.date_start # NULL THEN TimeOf(b.date_start) ELSE 0)

\* Array.prototype.sort with the comparator: a stable sort, here by insertion
RECURSIVE InsertByStart(_, _)
InsertByStart(sorted, e) ==
    IF Len(sorted) = 0 THEN <<e>>
    ELSE IF CompareStart(sorted[Len(sorted)], e) <= 0 THEN Append(sorted, e)
    ELSE Append(InsertByStart(SubSeq(sorted, 1, Len(sorted) - 1), e),
                sorted[Len(sorted)])

RECURSIVE SortByStart(_)
SortByStart(list) ==
    IF Len(list) = 0 THEN << >>
    ELSE InsertByStart(SortByStart(SubSeq(list, 1, Len(list) - 1)), list[Len(list)])

\* the filter's predicate, given the selected day's key
OnSelectedDay(e, selectedQuitoYmd) ==
    IF e.date_start = NULL THEN FALSE
    ELSE ymdInQuito(TimeOf(e.date_start)) = selectedQuitoYmd

eventsForSelectedDay(u) ==
    LET selectedQuitoYmd == ymdInQuito(selectedDay[u])
    IN  SortByStart(SelectSeq(eventsWithDate(u),
                              LAMBDA e : OnSelectedDay(e, selectedQuitoYmd)))

\* new Date(y, m - 1, d): the viewer's local midnight of a civil day (what the
\* day picker hands to onSelect)
LocalMidnight(u, day) ==
    DaysFromCivil(day[1], day[2], day[3]) * MinutesPerDay - viewerTz[u]

\* quitoDayAsLocalDate(iso): new Date(y, m - 1, da) of the Quito day's parts,
\* the viewer's local midnight of that civil day
quitoDayAsLocalDate(u, isoStr) ==
    LET parts == QuitoParts(TimeOf(isoStr))
    IN  LocalMidnight(u, <<NumberOf(parts.year), NumberOf(parts.month),
                           NumberOf(parts.day)>>)

daysWithEvents(u) ==
    { quitoDayAsLocalDate(u, e.date_start) : e \in Range(eventsWithDate(u)) }

\* the civil day of the viewer's calendar an instant falls on
LocalDay(u, t) == CivilFromDays((t + viewerTz[u]) \div MinutesPerDay)

\* modifiers={{ hasEvent: daysWithEvents }}: the picker marks the days of its
\* calendar that one of the dates falls on
hasEvent(u, day) == \E t \in daysWithEvents(u) : LocalDay(u, t) = day

\* DayPicker onSelect={(d) => d && setSelectedDay(d)}
SelectDay(u, day) ==
    /\ selectedDay' = [selectedDay EXCEPT ![u] = LocalMidnight(u, day)]
    /\ pickedDay' = [pickedDay EXCEPT ![u] = day]
    /\ UNCHANGED <<timeVars, modalVars, galleryVars, avatarVars, formVars, dashVars, pageVars, saving, page, session, tasks,
                   storeVars, histVars, viewerTz>>

-----------------------------------------------------------------------------
(* The hosted store: tables and buckets.  A call takes effect at once and   *)
(* either succeeds or fails with an error and no effect.                   *)

MaxIds   == 3      \* identifiers drawn in a run
MaxTasks == 2      \* handlers in flight at once
MaxFiles == 2      \* files chosen for one upload
MaxStarted == 3    \* handlers and pages the users start in a run

\* the user starts a handler or opens a page
Click == started < MaxStarted /\ started' = started + 1 /\ declined' = declined

CallOutcomes == BOOLEAN

\* the public URL of an object of a bucket
PublicMarker == "/storage/v1/object/public/"

PublicUrl(bucket, path) == <<PublicMarker, bucket>> \o path

\* Best-effort: the object's path when the URL is a public URL of the bucket
getStoragePathFromPublicUrl(publicUrl, bucket) ==
    IF Len(publicUrl) < 2 THEN NULL
    ELSE IF publicUrl[1] # PublicMarker \/ publicUrl[2] # bucket THEN NULL
    ELSE SubSeq(publicUrl, 3, Len(publicUrl))

\* select * from events order by created_at desc: identifiers are drawn in
\* increasing order, so a later row has the greater id
RECURSIVE RowsDescending(_)
RowsDescending(rows) ==
    IF rows = {} THEN << >>
    ELSE LET top == CHOOSE r \in rows : \A q \in rows : q.id <= r.id
         IN  <<top>> \o RowsDescending(rows \ {top})

\* a row id the table does not hold
FreshRowId(rows) == CHOOSE n \in 1..(Cardinality(rows) + 1) :
                        \A r \in rows : r.id # n

\* upsert(row, {onConflict: "event_id,user_id"}): the row of the pair is
\* replaced when there is one, inserted when there is none
InsertReview(rows, eid, uid, stars, text) ==
    rows \cup {[id |-> FreshRowId(rows), event_id |-> eid, user_id |-> uid,
                rating |-> stars, review_text |-> text]}

UpsertReview(rows, eid, uid, stars, text) ==
    IF \E r \in rows : r.event_id = eid /\ r.user_id = uid
    THEN { IF r.event_id = eid /\ r.user_id = uid
           THEN [r EXCEPT !.rating = stars, !.review_text = text]
           ELSE r : r \in rows }
    ELSE rows \cup {[id |-> FreshRowId(rows), event_id |-> eid, user_id |-> uid,
                     rating |-> stars, review_text |-> text]}

-----------------------------------------------------------------------------
(* Handlers in flight                                                      *)

TaskIds == 1..MaxTasks

Idle == [op |-> "idle"]

HasFreeSlot == \E t \in TaskIds : tasks[t] = Idle

FreeSlot == CHOOSE t \in TaskIds : tasks[t] = Idle /\ \A q \in 1..(t - 1) : tasks[q] # Idle

InFlight(u) == {t \in TaskIds : tasks[t] # Idle /\ tasks[t].u = u}

\* the handler op of user u is in flight
Running(u, op) == \E t \in InFlight(u) : tasks[t].op = op

\* a handler is called: it runs in a free slot
Start(task) == tasks' = [tasks EXCEPT ![FreeSlot] = task]

\* a handler returns
Return(t) == tasks' = [tasks EXCEPT ![t] = Idle]

\* the store calls a handler has issued, in order
Issue(task, call) == [task EXCEPT !.calls = Append(task.calls, call)]

\* what a call is: a write of a table or bucket, or a read
Writes == {"events.insert", "events.update", "events.delete",
           "reviews.upsert", "reviews.delete",
           "photos.insert", "photos.delete",
           "videos.insert", "videos.delete",
           "storage.upload", "storage.remove", "profiles.update"}

\* a write is issued: the history notes the handler when the user has no
\* session and the handler has not asked for one
NoteWrite(task) ==
    uncheckedWrites' =
        IF session[task.u]
              \/ "auth.getSession" \in {task.calls[i] : i \in 1..Len(task.calls)}
        THEN uncheckedWrites
        ELSE uncheckedWrites \cup {task.op}

-----------------------------------------------------------------------------
(* DashboardPage: load, toggleDone                                         *)

Mounted(u) == page[u] = "dashboard"

\* the avatar modal's state when the component is constructed.  Reached by
\* router.push or a link the document stays and its object URLs with it; a
\* reload of the dashboard unloads the document, which releases them
AvatarConstructed(u) ==
    /\ avatarOpen' = [avatarOpen EXCEPT ![u] = FALSE]
    /\ avatarFile' = [avatarFile EXCEPT ![u] = NULL]
    /\ avatarPreview' = [avatarPreview EXCEPT ![u] = NULL]
    /\ savingAvatar' = [savingAvatar EXCEPT ![u] = FALSE]
    /\ objectUrls' = IF Mounted(u) THEN [objectUrls EXCEPT ![u] = {}] ELSE objectUrls
    /\ UNCHANGED <<urlCount, profiles>>

\* the review-and-photos modal is rendered; its backdrop covers the page
ModalShown(u) == reviewOpen[u] /\ reviewEvent[u] # NULL

\* the controls of the page under the modal can be clicked
PageClickable(u) == Mounted(u) /\ ~ModalShown(u) /\ ~avatarOpen[u]

\* the review modal's fields when the component is constructed:
\* useState(5), useState(""), useState<PhotoRow[]>([])
ModalConstructed(u) ==
    /\ rating' = [rating EXCEPT ![u] = 5]
    /\ reviewText' = [reviewText EXCEPT ![u] = << >>]
    /\ photos' = [photos EXCEPT ![u] = {}]

\* the dashboard is opened (or reloaded): the component is constructed and
\* its effect calls load()
GoDashboard(u) ==
    /\ InFlight(u) = {}
    /\ HasFreeSlot
    /\ page[u] \in {"dashboard", "event", "new"}
    /\ page' = [page EXCEPT ![u] = "dashboard"]
    /\ events' = [events EXCEPT ![u] = << >>]
    /\ loading' = [loading EXCEPT ![u] = TRUE]
    /\ reviewOpen' = [reviewOpen EXCEPT ![u] = FALSE]
    /\ reviewEvent' = [reviewEvent EXCEPT ![u] = NULL]
    /\ savingReview' = [savingReview EXCEPT ![u] = FALSE]
    /\ uploading' = [uploading EXCEPT ![u] = FALSE]
    /\ AvatarConstructed(u)
    /\ ModalConstructed(u)
    /\ Start([op |-> "load", pc |-> "load.session", u |-> u, calls |-> << >>,
              data |-> NULL])
    /\ Click
    /\ UNCHANGED <<timeVars, galleryVars, formVars, calVars, pageVars, saving, session, storeVars, lastSave,
                   toggleLog, uncheckedWrites>>

\* load(): setLoading(true); ensureSessionAndProfile(): getSession, and
\* with no session router.push("/login"), setLoading(false), return
LoadSession(t) ==
    LET task == tasks[t]
        u    == task.u
    IN  /\ task # Idle
        /\ task.pc = "load.session"
        /\ IF session[u]
           THEN /\ loading' = [loading EXCEPT ![u] = TRUE]
                /\ tasks' = [tasks EXCEPT ![t] =
                       [Issue(task, "auth.getSession") EXCEPT !.pc = "load.select"]]
                /\ page' = page
           ELSE /\ loading' = [loading EXCEPT ![u] = FALSE]
                /\ page' = [page EXCEPT ![u] = "login"]
                /\ Return(t)
        /\ UNCHANGED <<timeVars, modalVars, galleryVars, avatarVars, formVars, calVars, events, reviewOpen, reviewEvent,
                       savingReview, uploading, pageVars, saving, session, storeVars,
                       histVars>>

\* load(): the profile has been read; select * from events order by
\* created_at desc
LoadSelect(t, ok) ==
    LET task == tasks[t]
    IN  /\ task # Idle
        /\ task.pc = "load.select"
        /\ tasks' = [tasks EXCEPT ![t] =
               [Issue(task, "events.select") EXCEPT
                   !.pc = "load.set",
                   !.data = IF ok THEN <<RowsDescending(tblEvents)>> ELSE NULL]]
        /\ UNCHANGED <<timeVars, modalVars, galleryVars, avatarVars, formVars, calVars, dashVars, pageVars, saving, page, session,
                       storeVars, histVars>>

\* load(): if (!error && data) setEvents(data); setLoading(false).  The
\* handler that awaited load() returns.
LoadSet(t) ==
    LET task == tasks[t]
        u    == task.u
    IN  /\ task # Idle
        /\ task.pc = "load.set"
        /\ events' = IF Mounted(u) /\ task.data # NULL
                     THEN [events EXCEPT ![u] = task.data[1]] ELSE events
        /\ loading' = [loading EXCEPT ![u] = FALSE]
        /\ Return(t)
        /\ UNCHANGED <<timeVars, modalVars, galleryVars, avatarVars, formVars, calVars, reviewOpen, reviewEvent, savingReview,
                       uploading, pageVars, saving, page, session, storeVars, histVars>>

\* a completion that is not taken back
InvertOnce(status) == "done"

Invert(status) == IF status = "planned" THEN "done" ELSE "planned"

\* update events set <fields> where id = <id>
UpdateEvent(rows, id, fields) ==
    { IF r.id = id
      THEN [k \in DOMAIN r |-> IF k \in DOMAIN fields THEN fields[k] ELSE r[k]]
      ELSE r : r \in rows }

\* toggleDone(e.id, e.status), clicked on a card of the list: the status is
\* the one of the loaded row; the update's result is not looked at
toggleDone(u, e, ok) ==
    LET next == Invert(e.status)
        task == [op |-> "toggleDone", pc |-> "load.session", u |-> u,
                 calls |-> << >>, id |-> e.id, next |-> next, data |-> NULL]
    IN  /\ PageClickable(u)
        /\ ~loading[u]
        /\ HasFreeSlot
        /\ tblEvents' = IF ok THEN UpdateEvent(tblEvents, e.id, [status |-> next])
                        ELSE tblEvents
        /\ toggleLog' = IF ok /\ (\E r \in tblEvents : r.id = e.id)
                        THEN [toggleLog EXCEPT ![e.id] = Append(@,
                                 [by |-> u,
                                  before |-> (CHOOSE r \in tblEvents : r.id = e.id).status,
                                  after |-> next])]
                        ELSE toggleLog
        /\ Start(Issue(task, "events.update"))
        /\ NoteWrite(task)
        /\ Click
        /\ UNCHANGED <<timeVars, modalVars, galleryVars, avatarVars, formVars, calVars, dashVars, pageVars, saving, page, session,
                       tblReviews, tblPhotos, tblVideos, objects, seq, lastSave>>

-----------------------------------------------------------------------------
(* DashboardPage: the review-and-photos modal                              *)

\* ensureSessionAndProfile() found no session: router.push("/login"), and the
\* handler returns
ToLogin(t, u) ==
    /\ page' = [page EXCEPT ![u] = "login"]
    /\ Return(t)

\* openReviewModal(e.id), clicked on a card of a done event; the handler
\* looks the row up in the events it was rendered with
openReviewModal(u, e) ==
    LET task == [op |-> "openReviewModal", pc |-> "reviews.select", u |-> u,
                 calls |-> <<"auth.getSession">>, data |-> NULL, ev |-> e]
    IN  /\ PageClickable(u)
        /\ ~loading[u]
        /\ e.status = "done"
        /\ HasFreeSlot
        /\ IF session[u] THEN Start(task) /\ page' = page
           ELSE ToLogin(FreeSlot, u)
        /\ Click
        /\ UNCHANGED <<timeVars, modalVars, galleryVars, avatarVars, formVars, calVars, dashVars, pageVars, saving, session,
                       storeVars, lastSave, toggleLog, uncheckedWrites>>

\* setReviewEvent(ev); setReviewOpen(true); the user's review of the event is
\* read
OpenReviewSelectReview(t) ==
    LET task == tasks[t]
        u    == task.u
    IN  /\ task # Idle
        /\ task.op = "openReviewModal" /\ task.pc = "reviews.select"
        /\ reviewEvent' = IF Mounted(u) THEN [reviewEvent EXCEPT ![u] = <<task.ev>>]
                          ELSE reviewEvent
        /\ reviewOpen' = IF Mounted(u) THEN [reviewOpen EXCEPT ![u] = TRUE]
                         ELSE reviewOpen
        /\ tasks' = [tasks EXCEPT ![t] =
               [Issue(task, "reviews.select") EXCEPT
                   !.pc = "photos.select",
                   !.data = IF \E r \in tblReviews :
                                  r.event_id = task.ev.id /\ r.user_id = u
                            THEN <<CHOOSE r \in tblReviews :
                                      r.event_id = task.ev.id /\ r.user_id = u>>
                            ELSE NULL]]
        /\ UNCHANGED <<timeVars, modalVars, galleryVars, avatarVars, formVars, calVars, events, loading, savingReview,
                       uploading, pageVars, saving, page, session, storeVars, histVars>>

\* setRating, setReviewText; the event's photos are read
OpenReviewSelectPhotos(t) ==
    LET task     == tasks[t]
        u        == task.u
        existing == task.data
    IN  /\ task # Idle
        /\ task.op = "openReviewModal" /\ task.pc = "photos.select"
        /\ rating' = IF ~Mounted(u) THEN rating
                     ELSE [rating EXCEPT ![u] =
                              IF existing = NULL THEN 5 ELSE existing[1].rating]
        /\ reviewText' = IF ~Mounted(u) THEN reviewText
                         ELSE [reviewText EXCEPT ![u] =
                                  IF existing = NULL \/ existing[1].review_text = NULL
                                  THEN << >> ELSE existing[1].review_text]
        /\ tasks' = [tasks EXCEPT ![t] =
               [Issue(task, "photos.select") EXCEPT
                   !.pc = "return",
                   !.data = <<{p \in tblPhotos : p.event_id = task.ev.id}>>]]
        /\ UNCHANGED <<timeVars, photos, galleryVars, avatarVars, formVars, calVars, dashVars, pageVars, saving, page, session,
                       storeVars, histVars>>

\* setPhotos, setAlbumFiles(null): the handler returns
OpenReviewReturn(t) ==
    LET task == tasks[t]
        u    == task.u
    IN  /\ task # Idle
        /\ task.op = "openReviewModal" /\ task.pc = "return"
        /\ photos' = IF Mounted(u) THEN [photos EXCEPT ![u] = task.data[1]] ELSE photos
        /\ Return(t)
        /\ UNCHANGED <<timeVars, rating, reviewText, galleryVars, avatarVars, formVars, calVars, dashVars, pageVars, saving, page, session,
                       storeVars, histVars>>

\* the modal's close button and backdrop: setReviewOpen(false)
CloseReview(u) ==
    /\ Mounted(u)
    /\ ModalShown(u)
    /\ reviewOpen' = [reviewOpen EXCEPT ![u] = FALSE]
    /\ UNCHANGED <<timeVars, modalVars, galleryVars, avatarVars, formVars, calVars, events, loading, reviewEvent, savingReview,
                   uploading, pageVars, saving, page, session, tasks, storeVars, histVars>>

\* what the rating field and the text area can hold when Save is clicked.
\* The field is a number input whose onChange stores Number(e.target.value):
\* 0 for the emptied field, and the number typed, also one that min and max
\* exclude
RatingInputs == {0, 3, 5, 9}
TextInputs   == {<< >>, <<" ">>, <<"o", "k">>, <<" ", "o", "k", " ">>}

\* s.trim()
RECURSIVE trim(_)
trim(s) ==
    IF Len(s) = 0 THEN s
    ELSE IF s[1] = " " THEN trim(Tail(s))
    ELSE IF s[Len(s)] = " " THEN trim(SubSeq(s, 1, Len(s) - 1))
    ELSE s

\* reviewText.trim() || null
ReviewTextOf(text) == IF trim(text) = << >> THEN NULL ELSE trim(text)

\* saveReview(), clicked in the modal with the rating and text then shown
saveReview(u, stars, text) ==
    LET task == [op |-> "saveReview", pc |-> "reviews.upsert", u |-> u,
                 calls |-> <<"auth.getSession">>, data |-> NULL,
                 ev |-> reviewEvent[u][1], rating |-> stars, text |-> text]
    IN  /\ Mounted(u)
        /\ ModalShown(u)
        /\ ~savingReview[u]
        /\ HasFreeSlot
        /\ IF session[u] THEN Start(task) /\ page' = page
           ELSE ToLogin(FreeSlot, u)
        /\ rating' = [rating EXCEPT ![u] = stars]
        /\ reviewText' = [reviewText EXCEPT ![u] = text]
        /\ Click
        /\ UNCHANGED <<timeVars, photos, galleryVars, avatarVars, formVars, calVars, dashVars, pageVars, saving, session,
                       storeVars, lastSave, toggleLog, uncheckedWrites>>

\* setSavingReview(true); the upsert on (event_id, user_id)
SaveReviewUpsert(t, ok) ==
    LET task == tasks[t]
        u    == task.u
        text == ReviewTextOf(task.text)
    IN  /\ task # Idle
        /\ task.op = "saveReview" /\ task.pc = "reviews.upsert"
        /\ savingReview' = [savingReview EXCEPT ![u] = TRUE]
        /\ tblReviews' = IF ok THEN UpsertReview(tblReviews, task.ev.id, u,
                                                 task.rating, text)
                         ELSE tblReviews
        /\ lastSave' = IF ok
                       THEN [lastSave EXCEPT ![<<task.ev.id, u>>] =
                                <<[rating |-> task.rating, text |-> task.text,
                                   n |-> IF @ = NULL THEN 1 ELSE @[1].n + 1]>>]
                       ELSE lastSave
        /\ NoteWrite(task)
        /\ tasks' = [tasks EXCEPT ![t] =
               [Issue(task, "reviews.upsert") EXCEPT !.pc = "return", !.data = <<ok>>]]
        /\ UNCHANGED <<timeVars, modalVars, galleryVars, avatarVars, formVars, calVars, events, loading, reviewOpen,
                       reviewEvent, uploading, pageVars, saving, page, session,
                       tblEvents, tblPhotos, tblVideos, objects, seq,
                       toggleLog, started, declined>>

\* setSavingReview(false); an error is shown with alert(error.message)
SaveReviewReturn(t) ==
    LET task == tasks[t]
        u    == task.u
    IN  /\ task # Idle
        /\ task.op = "saveReview" /\ task.pc = "return"
        /\ savingReview' = [savingReview EXCEPT ![u] = FALSE]
        /\ Return(t)
        /\ UNCHANGED <<timeVars, modalVars, galleryVars, avatarVars, formVars, calVars, events, loading, reviewOpen,
                       reviewEvent, uploading, pageVars, saving, page, session,
                       storeVars, histVars>>

\* uploadAlbum: the object's path, `albums/${eventId}/${makeId()}.${ext}`
AlbumPath(eventId, id) == <<"albums", eventId, id>>

\* uploadPhotosFromModal(), clicked in the modal with n files chosen
uploadPhotosFromModal(u, n) ==
    LET task == [op |-> "uploadPhotosFromModal", pc |-> "albums.upload", u |-> u,
                 calls |-> <<"auth.getSession">>, data |-> NULL,
                 ev |-> reviewEvent[u][1], left |-> n]
    IN  /\ Mounted(u)
        /\ ModalShown(u)
        /\ ~uploading[u]
        /\ HasFreeSlot
        /\ IF session[u] THEN Start(task) /\ page' = page
           ELSE ToLogin(FreeSlot, u)
        /\ Click
        /\ UNCHANGED <<timeVars, modalVars, galleryVars, avatarVars, formVars, calVars, dashVars, pageVars, saving, session,
                       storeVars, lastSave, toggleLog, uncheckedWrites>>

\* with no file chosen the handler returns; else setUploading(true) and the
\* next file goes to the bucket (upsert: false, under a fresh name)
UploadPhotosUpload(t, ok) ==
    LET task == tasks[t]
        u    == task.u
        id   == seq + 1
        path == AlbumPath(task.ev.id, id)
        done == ok /\ seq < MaxIds
    IN  /\ task # Idle
        /\ task.op = "uploadPhotosFromModal" /\ task.pc = "albums.upload"
        /\ IF task.left = 0
           THEN /\ Return(t)
                /\ UNCHANGED <<uploading, objects, seq, uncheckedWrites>>
           ELSE /\ uploading' = [uploading EXCEPT ![u] = TRUE]
                /\ objects' = IF done THEN objects \cup {[bucket |-> "albums", path |-> path]}
                              ELSE objects
                /\ seq' = IF done THEN id ELSE seq
                /\ NoteWrite(task)
                /\ tasks' = [tasks EXCEPT ![t] =
                       [Issue(task, "storage.upload") EXCEPT
                           !.pc = IF done THEN "photos.insert" ELSE "failed",
                           !.data = IF done THEN PublicUrl("albums", path) ELSE NULL]]
        /\ UNCHANGED <<timeVars, modalVars, galleryVars, avatarVars, formVars, calVars, events, loading, reviewOpen,
                       reviewEvent, savingReview, pageVars, saving, page, session,
                       tblEvents, tblReviews, tblPhotos, tblVideos, lastSave, toggleLog,
                       started, declined>>

\* the file's row is inserted; the result of the insert is not looked at
UploadPhotosInsert(t, ok) ==
    LET task == tasks[t]
        u    == task.u
        row  == [id |-> task.data[Len(task.data)], event_id |-> task.ev.id, user_id |-> u,
                 photo_url |-> task.data]
    IN  /\ task # Idle
        /\ task.op = "uploadPhotosFromModal" /\ task.pc = "photos.insert"
        /\ tblPhotos' = IF ok THEN tblPhotos \cup {row} ELSE tblPhotos
        /\ NoteWrite(task)
        /\ tasks' = [tasks EXCEPT ![t] =
               [Issue(task, "photos.insert") EXCEPT
                   !.pc = IF task.left > 1 THEN "albums.upload" ELSE "photos.select",
                   !.left = task.left - 1]]
        /\ UNCHANGED <<timeVars, modalVars, galleryVars, avatarVars, formVars, calVars, dashVars, pageVars, saving, page, session,
                       tblEvents, tblReviews, tblVideos, objects, seq, lastSave, toggleLog,
                       started, declined>>

\* the event's photos are read again
UploadPhotosSelect(t) ==
    LET task == tasks[t]
    IN  /\ task # Idle
        /\ task.op = "uploadPhotosFromModal" /\ task.pc = "photos.select"
        /\ tasks' = [tasks EXCEPT ![t] =
               [Issue(task, "photos.select") EXCEPT
                   !.pc = "return",
                   !.data = <<{p \in tblPhotos : p.event_id = task.ev.id}>>]]
        /\ UNCHANGED <<timeVars, modalVars, galleryVars, avatarVars, formVars, calVars, dashVars, pageVars, saving, page, session,
                       storeVars, histVars>>

\* setPhotos, setAlbumFiles(null), or the catch's alert; finally
\* setUploading(false)
UploadPhotosReturn(t) ==
    LET task == tasks[t]
        u    == task.u
    IN  /\ task # Idle
        /\ task.op = "uploadPhotosFromModal" /\ task.pc \in {"return", "failed"}
        /\ uploading' = [uploading EXCEPT ![u] = FALSE]
        /\ photos' = IF task.pc = "return" /\ Mounted(u)
                     THEN [photos EXCEPT ![u] = task.data[1]] ELSE photos
        /\ Return(t)
        /\ UNCHANGED <<timeVars, rating, reviewText, galleryVars, avatarVars, formVars, calVars, events, loading, reviewOpen,
                       reviewEvent, savingReview, pageVars, saving, page, session,
                       storeVars, histVars>>

-----------------------------------------------------------------------------
(* DashboardPage: deleteEventCompletely                                    *)

\* the album paths of the photos read, and the cover's path
AlbumPathsOf(photosToDelete) ==
    { getStoragePathFromPublicUrl(p.photo_url, "albums") : p \in photosToDelete }
        \ {NULL}

\* the calls the handler makes after it has read the event's photos, in the
\* order of the code
deleteEventCleanupFirst(ev, photosToDelete) ==
    (IF AlbumPathsOf(photosToDelete) # {} THEN <<"albums.remove">> ELSE << >>)
        \o (IF getStoragePathFromPublicUrl(ev.cover_url, "covers") # NULL
            THEN <<"covers.remove">> ELSE << >>)
        \o <<"reviews.delete", "photos.delete", "events.delete">>

deleteEventCalls(ev, photosToDelete) ==
    <<"reviews.delete", "photos.delete", "events.delete">>
        \o (IF AlbumPathsOf(photosToDelete) # {} THEN <<"albums.remove">> ELSE << >>)
        \o (IF getStoragePathFromPublicUrl(ev.cover_url, "covers") # NULL
            THEN <<"covers.remove">> ELSE << >>)

\* deleteEventCompletely(e), clicked on a card and confirmed: the event's
\* photos are read; data ?? [] on an error
deleteEventCompletely(u, ev, ok) ==
    LET photosToDelete == IF ok THEN {p \in tblPhotos : p.event_id = ev.id} ELSE {}
        calls == deleteEventCalls(ev, photosToDelete)
        task  == [op |-> "deleteEventCompletely", pc |-> Head(calls), u |-> u,
                  calls |-> <<"photos.select">>, data |-> NULL, ev |-> ev,
                  photosToDelete |-> photosToDelete, todo |-> Tail(calls),
                  rowsFailed |-> ~ok, filesFailed |-> FALSE]
    IN  /\ PageClickable(u)
        /\ ~loading[u]
        /\ HasFreeSlot
        /\ Start(task)
        /\ Click
        /\ UNCHANGED <<timeVars, modalVars, galleryVars, avatarVars, formVars, calVars, dashVars, pageVars, saving, page, session,
                       storeVars, lastSave, toggleLog, uncheckedWrites>>

\* the handler goes on to its next call, and after the last one to load()
Proceed(task, call, ok) ==
    [Issue(task, call) EXCEPT
        !.pc = IF task.todo = << >> THEN "load.session" ELSE Head(task.todo),
        !.todo = IF task.todo = << >> THEN << >> ELSE Tail(task.todo),
        !.rowsFailed = task.rowsFailed
                          \/ (~ok /\ call \notin {"albums.remove", "covers.remove"}),
        !.filesFailed = task.filesFailed
                          \/ (~ok /\ call \in {"albums.remove", "covers.remove"})]

\* delete from reviews / photos / events where the event's id matches; no
\* result is looked at
DeleteEventRows(t, ok) ==
    LET task == tasks[t]
        id   == task.ev.id
    IN  /\ task # Idle
        /\ task.op = "deleteEventCompletely"
        /\ task.pc \in {"reviews.delete", "photos.delete", "events.delete"}
        /\ tblReviews' = IF ok /\ task.pc = "reviews.delete"
                         THEN {r \in tblReviews : r.event_id # id} ELSE tblReviews
        /\ tblPhotos' = IF ok /\ task.pc = "photos.delete"
                        THEN {r \in tblPhotos : r.event_id # id} ELSE tblPhotos
        /\ tblEvents' = IF ok /\ task.pc = "events.delete"
                        THEN {r \in tblEvents : r.id # id} ELSE tblEvents
        /\ NoteWrite(task)
        /\ tasks' = [tasks EXCEPT ![t] = Proceed(task, task.pc, ok)]
        /\ UNCHANGED <<timeVars, modalVars, galleryVars, avatarVars, formVars, calVars, dashVars, pageVars, saving, page, session,
                       tblVideos, objects, seq, lastSave, toggleLog,
                       started, declined>>

\* storage.from("albums").remove(albumPaths), storage.from("covers")
\* .remove([coverPath]): best effort, no result is looked at
DeleteEventFiles(t, ok) ==
    LET task  == tasks[t]
        paths == IF task.pc = "albums.remove" THEN AlbumPathsOf(task.photosToDelete)
                 ELSE {getStoragePathFromPublicUrl(task.ev.cover_url, "covers")}
        bkt   == IF task.pc = "albums.remove" THEN "albums" ELSE "covers"
    IN  /\ task # Idle
        /\ task.op = "deleteEventCompletely"
        /\ task.pc \in {"albums.remove", "covers.remove"}
        /\ objects' = IF ok THEN {o \in objects : ~(o.bucket = bkt /\ o.path \in paths)}
                      ELSE objects
        /\ NoteWrite(task)
        /\ tasks' = [tasks EXCEPT ![t] = Proceed(task, task.pc, ok)]
        /\ UNCHANGED <<timeVars, modalVars, galleryVars, avatarVars, formVars, calVars, dashVars, pageVars, saving, page, session,
                       tblEvents, tblReviews, tblPhotos, tblVideos, seq, lastSave, toggleLog,
                       started, declined>>

-----------------------------------------------------------------------------
(* DashboardPage: the date of an event                                     *)

\* what the date modal's datetime-local control can hold when Save is clicked:
\* an afternoon and a late evening of the present, and a year typed with two
\* significant digits
DateInputs ==
    {WallString(2026, 2, 8, 16, 0), WallString(2026, 2, 8, 23, 59),
     WallString(50, 12, 1, 19, 0)}

\* savingDate: set from the click of Save until the update's response
SavingDate(u) ==
    \E t \in InFlight(u) :
        tasks[t].op = "saveDateForEvent" /\ tasks[t].pc \in {"alert", "load.session"}

\* saveDateForEvent(), clicked with an event chosen and a value entered: the
\* update is issued at once; on an error the handler alerts and returns, else
\* it closes the modal and calls load() (the task notes in wrote whether the
\* store applied the update)
saveDateForEvent(u, dateEventId, dateLocalValue, ok) ==
    LET isoStr == toIsoFromLocalDatetime(dateLocalValue)
        task   == [op |-> "saveDateForEvent",
                   pc |-> IF ok THEN "load.session" ELSE "alert",
                   u |-> u, calls |-> << >>, data |-> NULL, id |-> dateEventId,
                   value |-> dateLocalValue, wrote |-> ok]
    IN  /\ PageClickable(u)
        /\ ~SavingDate(u)
        /\ HasFreeSlot
        /\ tblEvents' = IF ok THEN UpdateEvent(tblEvents, dateEventId,
                                               [date_start |-> isoStr])
                        ELSE tblEvents
        /\ Start(Issue(task, "events.update"))
        /\ NoteWrite(task)
        /\ Click
        /\ UNCHANGED <<timeVars, modalVars, galleryVars, avatarVars, formVars, calVars, dashVars, pageVars, saving, page, session,
                       tblReviews, tblPhotos, tblVideos, objects, seq, lastSave, toggleLog>>

\* alert(error.message); return
SaveDateAlert(t) ==
    LET task == tasks[t]
    IN  /\ task # Idle
        /\ task.op = "saveDateForEvent" /\ task.pc = "alert"
        /\ Return(t)
        /\ UNCHANGED <<timeVars, modalVars, galleryVars, avatarVars, formVars, calVars, dashVars, pageVars, saving, page, session,
                       storeVars, histVars>>

\* a removal that leaves the end of the event
ClearedStart == [date_start |-> NULL]

\* { date_start: null, date_end: null }
ClearedDates == [date_start |-> NULL, date_end |-> NULL]

\* removeDateForEvent(e.id), clicked in the selected day's list and
\* confirmed; the update's result is not looked at (the task notes in wrote
\* whether the store applied it)
removeDateForEvent(u, e, ok) ==
    LET task == [op |-> "removeDateForEvent", pc |-> "load.session", u |-> u,
                 calls |-> << >>, data |-> NULL, id |-> e.id, wrote |-> ok]
    IN  /\ PageClickable(u)
        /\ HasFreeSlot
        /\ tblEvents' = IF ok THEN UpdateEvent(tblEvents, e.id, ClearedDates)
                        ELSE tblEvents
        /\ Start(Issue(task, "events.update"))
        /\ NoteWrite(task)
        /\ Click
        /\ UNCHANGED <<timeVars, modalVars, galleryVars, avatarVars, formVars, calVars, dashVars, pageVars, saving, page, session,
                       tblReviews, tblPhotos, tblVideos, objects, seq, lastSave, toggleLog>>

-----------------------------------------------------------------------------
(* DashboardPage: the avatar modal.  A handler called from a render keeps   *)
(* the state of that render: saveAvatar and removeAvatar call the           *)
(* closeAvatarModal of the render they were clicked in.                    *)

MaxUrls == 3       \* object URLs created in a run

\* the files the file input can hand to onPickAvatar: an image, a file that
\* is no image, an image over 6MB
AvatarFiles ==
    { [ext |-> "png", image |-> TRUE, heavy |-> FALSE],
      [ext |-> "pdf", image |-> FALSE, heavy |-> FALSE],
      [ext |-> "jpg", image |-> TRUE, heavy |-> TRUE] }

isImageFile(file) == file.image

\* `${uid}/avatar.${ext}`
AvatarPath(uid, ext) == <<uid, "avatar", ext>>

\* if (avatarPreview) URL.revokeObjectURL(avatarPreview), for the
\* avatarPreview of the render the caller belongs to
Revoked(u, preview) ==
    IF preview = NULL THEN objectUrls
    ELSE [objectUrls EXCEPT ![u] = @ \ {preview[1]}]

\* the body of closeAvatarModal (and of openAvatarModal, but for the flag)
ResetAvatar(u, open, preview) ==
    /\ avatarOpen' = [avatarOpen EXCEPT ![u] = open]
    /\ avatarFile' = [avatarFile EXCEPT ![u] = NULL]
    /\ objectUrls' = Revoked(u, preview)
    /\ avatarPreview' = [avatarPreview EXCEPT ![u] = NULL]

openAvatarModal(u) ==
    /\ PageClickable(u)
    /\ ResetAvatar(u, TRUE, avatarPreview[u])
    /\ UNCHANGED <<timeVars, modalVars, galleryVars, formVars, calVars, dashVars, savingAvatar, urlCount, profiles, pageVars,
                   saving, page, session, tasks, storeVars, histVars>>

\* the close button or the backdrop is clicked
closeAvatarModal(u) ==
    /\ Mounted(u)
    /\ avatarOpen[u]
    /\ ResetAvatar(u, FALSE, avatarPreview[u])
    /\ UNCHANGED <<timeVars, modalVars, galleryVars, formVars, calVars, dashVars, savingAvatar, urlCount, profiles, pageVars,
                   saving, page, session, tasks, storeVars, histVars>>

\* the file input changes
onPickAvatar(u, file) ==
    /\ Mounted(u)
    /\ avatarOpen[u]
    /\ urlCount < MaxUrls
    /\ IF ~isImageFile(file) \/ file.heavy
       THEN UNCHANGED <<avatarFile, avatarPreview, objectUrls, urlCount>>
       ELSE /\ avatarFile' = [avatarFile EXCEPT ![u] = <<file>>]
            /\ urlCount' = urlCount + 1
            /\ objectUrls' = [Revoked(u, avatarPreview[u]) EXCEPT
                                 ![u] = @ \cup {urlCount + 1}]
            /\ avatarPreview' = [avatarPreview EXCEPT ![u] = <<urlCount + 1>>]
    /\ UNCHANGED <<timeVars, modalVars, galleryVars, formVars, calVars, dashVars, avatarOpen, savingAvatar, profiles,
                   pageVars, saving, page, session, tasks, storeVars, histVars>>

\* saveAvatar(), clicked in the modal with a file chosen
saveAvatar(u) ==
    LET task == [op |-> "saveAvatar", pc |-> "avatars.upload", u |-> u,
                 calls |-> <<"auth.getSession">>, data |-> NULL,
                 file |-> avatarFile[u][1], preview |-> avatarPreview[u]]
    IN  /\ Mounted(u)
        /\ avatarOpen[u]
        /\ ~savingAvatar[u]
        /\ avatarFile[u] # NULL
        /\ HasFreeSlot
        /\ IF session[u] THEN Start(task) /\ page' = page
           ELSE ToLogin(FreeSlot, u)
        /\ Click
        /\ UNCHANGED <<timeVars, modalVars, galleryVars, avatarVars, formVars, calVars, dashVars, pageVars, saving, session,
                       storeVars, lastSave, toggleLog, uncheckedWrites>>

\* setSavingAvatar(true); the file goes to the bucket under the user's path
\* (upsert: true); an error is thrown
SaveAvatarUpload(t, ok) ==
    LET task == tasks[t]
        u    == task.u
        path == AvatarPath(u, task.file.ext)
    IN  /\ task # Idle
        /\ task.op = "saveAvatar" /\ task.pc = "avatars.upload"
        /\ savingAvatar' = [savingAvatar EXCEPT ![u] = TRUE]
        /\ objects' = IF ok THEN objects \cup {[bucket |-> "avatars", path |-> path]}
                      ELSE objects
        /\ NoteWrite(task)
        /\ tasks' = [tasks EXCEPT ![t] =
               [Issue(task, "storage.upload") EXCEPT
                   !.pc = IF ok THEN "profiles.update" ELSE "failed",
                   !.data = IF ok THEN PublicUrl("avatars", path) ELSE NULL]]
        /\ UNCHANGED <<timeVars, modalVars, galleryVars, formVars, calVars, dashVars, avatarOpen, avatarFile, avatarPreview,
                       objectUrls, urlCount, profiles, pageVars, saving, page, session,
                       tblEvents, tblReviews, tblPhotos, tblVideos, seq, lastSave,
                       toggleLog, started, declined>>

\* removeAvatar(), clicked in the modal and confirmed
removeAvatar(u) ==
    LET task == [op |-> "removeAvatar", pc |-> "avatars.remove", u |-> u,
                 calls |-> <<"auth.getSession">>, data |-> NULL,
                 file |-> NULL, preview |-> avatarPreview[u]]
    IN  /\ Mounted(u)
        /\ avatarOpen[u]
        /\ ~savingAvatar[u]
        /\ HasFreeSlot
        /\ IF session[u] THEN Start(task) /\ page' = page
           ELSE ToLogin(FreeSlot, u)
        /\ Click
        /\ UNCHANGED <<timeVars, modalVars, galleryVars, avatarVars, formVars, calVars, dashVars, pageVars, saving, session,
                       storeVars, lastSave, toggleLog, uncheckedWrites>>

\* setSavingAvatar(true); the user's avatar objects are removed; the result
\* of the removal is not looked at
RemoveAvatarRemove(t, ok) ==
    LET task == tasks[t]
        u    == task.u
        gone == { [bucket |-> "avatars", path |-> AvatarPath(u, ext)] :
                  ext \in {"jpg", "jpeg", "png", "webp"} }
    IN  /\ task # Idle
        /\ task.op = "removeAvatar" /\ task.pc = "avatars.remove"
        /\ savingAvatar' = [savingAvatar EXCEPT ![u] = TRUE]
        /\ objects' = IF ok THEN objects \ gone ELSE objects
        /\ NoteWrite(task)
        /\ tasks' = [tasks EXCEPT ![t] =
               [Issue(task, "storage.remove") EXCEPT !.pc = "profiles.update"]]
        /\ UNCHANGED <<timeVars, modalVars, galleryVars, formVars, calVars, dashVars, avatarOpen, avatarFile, avatarPreview,
                       objectUrls, urlCount, profiles, pageVars, saving, page, session,
                       tblEvents, tblReviews, tblPhotos, tblVideos, seq, lastSave,
                       toggleLog, started, declined>>

\* profiles.update({avatar_url}).eq("id", uid): the public URL of the object
\* for saveAvatar, null for removeAvatar; an error is thrown
AvatarUpdateProfile(t, ok) ==
    LET task == tasks[t]
        u    == task.u
    IN  /\ task # Idle
        /\ task.op \in {"saveAvatar", "removeAvatar"} /\ task.pc = "profiles.update"
        /\ profiles' = IF ok THEN [profiles EXCEPT ![u] = task.data] ELSE profiles
        /\ NoteWrite(task)
        /\ tasks' = [tasks EXCEPT ![t] =
               [Issue(task, "profiles.update") EXCEPT
                   !.pc = IF ok THEN "close" ELSE "failed"]]
        /\ UNCHANGED <<timeVars, modalVars, galleryVars, formVars, calVars, dashVars, avatarOpen, avatarFile, avatarPreview,
                       savingAvatar, objectUrls, urlCount, pageVars, saving, page, session,
                       storeVars, lastSave, toggleLog, started, declined>>

\* setMeAvatarUrl and closeAvatarModal() of the handler's render, or the
\* catch's alert; finally setSavingAvatar(false)
AvatarReturn(t) ==
    LET task == tasks[t]
        u    == task.u
    IN  /\ task # Idle
        /\ task.op \in {"saveAvatar", "removeAvatar"}
        /\ task.pc \in {"close", "failed"}
        /\ IF task.pc = "close"
           THEN ResetAvatar(u, FALSE, task.preview)
           ELSE UNCHANGED <<avatarOpen, avatarFile, avatarPreview, objectUrls>>
        /\ savingAvatar' = [savingAvatar EXCEPT ![u] = FALSE]
        /\ Return(t)
        /\ UNCHANGED <<timeVars, modalVars, galleryVars, formVars, calVars, dashVars, urlCount, profiles, pageVars, saving,
                       page, session, storeVars, histVars>>

-----------------------------------------------------------------------------
(* NewEventPage: createEvent                                               *)

\* the link "Nueva salida" of the dashboard
GoNew(u) ==
    /\ PageClickable(u)
    /\ InFlight(u) = {}
    /\ page' = [page EXCEPT ![u] = "new"]
    /\ title' = [title EXCEPT ![u] = << >>]
    /\ location' = [location EXCEPT ![u] = << >>]
    /\ link' = [link EXCEPT ![u] = << >>]
    /\ cover' = [cover EXCEPT ![u] = NULL]
    /\ msg' = [msg EXCEPT ![u] = NULL]
    /\ saving' = [saving EXCEPT ![u] = FALSE]
    /\ Click
    /\ UNCHANGED <<timeVars, modalVars, galleryVars, avatarVars, calVars, dashVars, pageVars, session, tasks,
                   storeVars, lastSave, toggleLog, uncheckedWrites>>

\* uploadCover: the object's path, `covers/${makeId()}.${ext}`
CoverPath(id) == <<"covers", id>>

\* what is typed into the form
TitleInputs == {<< >>, <<" ">>, <<" ", "C", "i", "n", "e", " ">>}

LocationInputs == {<< >>, <<"Q", "u", "i", "t", "o">>}

LinkInputs == {<< >>, <<"a", ".", "e", "c">>,
               <<"f", "t", "p", ":", "/", "/", "a", ".", "e", "c">>,
               <<"h", "t", "t", "p", "s", ":", "/", "/">>,
               <<"H", "T", "T", "P", "S", ":", "/", "/", "a", ".", "e", "c">>,
               <<" ", "h", "t", "t", "p", "s", ":", "/", "/", "a", ".", "e", "c", " ">>}

CoverInputs == {NULL, <<"jpg">>}

\* the form's fields are typed in, a cover is chosen
setTitle(u, value) ==
    /\ page[u] = "new"
    /\ title' = [title EXCEPT ![u] = value]
    /\ UNCHANGED <<timeVars, modalVars, galleryVars, avatarVars, calVars, dashVars, location, link, cover, msg,
                   pageVars, saving, page, session, tasks, storeVars, histVars>>

setLocation(u, value) ==
    /\ page[u] = "new"
    /\ location' = [location EXCEPT ![u] = value]
    /\ UNCHANGED <<timeVars, modalVars, galleryVars, avatarVars, calVars, dashVars, title, link, cover, msg,
                   pageVars, saving, page, session, tasks, storeVars, histVars>>

setLink(u, value) ==
    /\ page[u] = "new"
    /\ link' = [link EXCEPT ![u] = value]
    /\ UNCHANGED <<timeVars, modalVars, galleryVars, avatarVars, calVars, dashVars, title, location, cover, msg,
                   pageVars, saving, page, session, tasks, storeVars, histVars>>

setCover(u, file) ==
    /\ page[u] = "new"
    /\ cover' = [cover EXCEPT ![u] = file]
    /\ UNCHANGED <<timeVars, modalVars, galleryVars, avatarVars, calVars, dashVars, title, location, link, msg,
                   pageVars, saving, page, session, tasks, storeVars, histVars>>

Letters == <<"a", "b", "c", "d", "e", "f", "g", "h", "i", "j", "k", "l", "m",
             "n", "o", "p", "q", "r", "s", "t", "u", "v", "w", "x", "y", "z">>

Capitals == <<"A", "B", "C", "D", "E", "F", "G", "H", "I", "J", "K", "L", "M",
              "N", "O", "P", "Q", "R", "S", "T", "U", "V", "W", "X", "Y", "Z">>

isAlpha(c) == \E i \in 1..26 : Letters[i] = c \/ Capitals[i] = c

toLowerCase(s) ==
    [i \in 1..Len(s) |->
        IF \E k \in 1..26 : Capitals[k] = s[i]
        THEN Letters[CHOOSE k \in 1..26 : Capitals[k] = s[i]]
        ELSE s[i]]

\* the characters a URL's scheme is made of after its first letter
isSchemeChar(c) ==
    \/ isAlpha(c)
    \/ \E n \in 0..9 : DigitChar(n) = c
    \/ c \in {"+", "-", "."}

\* the schemes whose URLs must have a host
HostSchemes == {<<"h", "t", "t", "p">>, <<"h", "t", "t", "p", "s">>, <<"f", "t", "p">>, <<"w", "s">>, <<"w", "s", "s">>}

RECURSIVE SkipSlashes(_)
SkipSlashes(s) ==
    IF Len(s) > 0 /\ s[1] \in {"/", "\\"} THEN SkipSlashes(Tail(s)) ELSE s

\* the host of an authority: up to the first "/", "\", "?" or "#"
RECURSIVE HostOf(_)
HostOf(s) ==
    IF Len(s) = 0 \/ s[1] \in {"/", "\\", "?", "#"} THEN << >>
    ELSE <<s[1]>> \o HostOf(Tail(s))

\* new URL(u).protocol with no base, NULL when the constructor throws: the
\* input has no scheme, or its scheme needs a host and the host is empty or
\* holds a space
UrlProtocol(u) ==
    IF Len(u) = 0 \/ \A i \in 1..Len(u) : u[i] # ":" THEN NULL
    ELSE LET k      == CHOOSE i \in 1..Len(u) :
                           u[i] = ":" /\ \A j \in 1..(i - 1) : u[j] # ":"
             scheme == toLowerCase(SubSeq(u, 1, k - 1))
             host   == HostOf(SkipSlashes(SubSeq(u, k + 1, Len(u))))
         IN  IF k = 1 \/ ~isAlpha(u[1]) \/ \E j \in 1..(k - 1) : ~isSchemeChar(u[j])
             THEN NULL
             ELSE IF scheme \in HostSchemes
                     /\ (host = << >> \/ \E i \in 1..Len(host) : host[i] = " ")
             THEN NULL
             ELSE scheme \o <<":">>

\* any URL the constructor takes
isValidUrlAny(u) == UrlProtocol(u) # NULL

isValidUrlMaybe(u) ==
    LET protocol == UrlProtocol(u)
    IN  protocol = <<"h", "t", "t", "p", ":">> \/ protocol = <<"h", "t", "t", "p", "s", ":">>

titleOk(u) == Len(trim(title[u])) > 0

locOk(u) == Len(trim(location[u])) > 0

linkOk(u) == Len(trim(link[u])) > 0 /\ isValidUrlMaybe(trim(link[u]))

coverOk(u) == cover[u] # NULL

canSave(u) == titleOk(u) /\ locOk(u) /\ linkOk(u) /\ coverOk(u)

InvalidFormMsg == "Completa todo correctamente (incluye un link valido y una portada)."

\* createEvent(), the form is submitted: setMsg(null); an invalid form gets
\* the message and the handler returns; else ensureSession()
createEvent(u) ==
    LET task == [op |-> "createEvent", pc |-> "covers.upload", u |-> u,
                 calls |-> <<"auth.getSession">>, data |-> NULL]
    IN  /\ page[u] = "new"
        /\ ~saving[u]
        /\ IF ~canSave(u)
           THEN /\ msg' = [msg EXCEPT ![u] = <<InvalidFormMsg>>]
                /\ UNCHANGED <<tasks, page>>
           ELSE /\ HasFreeSlot
                /\ msg' = [msg EXCEPT ![u] = NULL]
                /\ IF session[u] THEN Start(task) /\ page' = page
                   ELSE ToLogin(FreeSlot, u)
        /\ Click
        /\ UNCHANGED <<timeVars, modalVars, galleryVars, avatarVars, calVars, dashVars, title, location, link, cover,
                       pageVars, saving, session, storeVars, lastSave, toggleLog,
                       uncheckedWrites>>

\* setSaving(true); the cover goes to the bucket under a fresh name
CreateEventUpload(t, ok) ==
    LET task == tasks[t]
        u    == task.u
        id   == seq + 1
        done == ok /\ seq < MaxIds
    IN  /\ task # Idle
        /\ task.op = "createEvent" /\ task.pc = "covers.upload"
        /\ saving' = [saving EXCEPT ![u] = TRUE]
        /\ objects' = IF done THEN objects \cup {[bucket |-> "covers", path |-> CoverPath(id)]}
                      ELSE objects
        /\ seq' = IF done THEN id ELSE seq
        /\ NoteWrite(task)
        /\ tasks' = [tasks EXCEPT ![t] =
               [Issue(task, "storage.upload") EXCEPT
                   !.pc = IF done THEN "events.insert" ELSE "failed",
                   !.data = IF done THEN PublicUrl("covers", CoverPath(id)) ELSE NULL]]
        /\ UNCHANGED <<timeVars, modalVars, galleryVars, avatarVars, formVars, calVars, dashVars, pageVars, page, session,
                       tblEvents, tblReviews, tblPhotos, tblVideos, lastSave, toggleLog,
                       started, declined>>

\* a row that is done from the start
NewEventRowDone(id, coverUrl) ==
    [id |-> id, status |-> "done", date_start |-> NULL, date_end |-> NULL,
     cover_url |-> coverUrl]

\* the row createEvent inserts
NewEventRow(id, coverUrl) ==
    [id |-> id, status |-> "planned", date_start |-> NULL, date_end |-> NULL,
     cover_url |-> coverUrl]

\* the events row is inserted
CreateEventInsert(t, ok) ==
    LET task == tasks[t]
        id   == seq + 1
        done == ok /\ seq < MaxIds
    IN  /\ task # Idle
        /\ task.op = "createEvent" /\ task.pc = "events.insert"
        /\ tblEvents' = IF done THEN tblEvents \cup {NewEventRow(id, task.data)}
                        ELSE tblEvents
        /\ seq' = IF done THEN id ELSE seq
        /\ NoteWrite(task)
        /\ tasks' = [tasks EXCEPT ![t] =
               [Issue(task, "events.insert") EXCEPT
                   !.pc = IF done THEN "return" ELSE "failed"]]
        /\ UNCHANGED <<timeVars, modalVars, galleryVars, avatarVars, formVars, calVars, dashVars, pageVars, saving, page, session,
                       tblReviews, tblPhotos, tblVideos, objects, lastSave, toggleLog,
                       started, declined>>

\* setSaving(false) and the message of the error
CreateEventFailed(t) ==
    LET task == tasks[t]
        u    == task.u
    IN  /\ task # Idle
        /\ task.op = "createEvent" /\ task.pc = "failed"
        /\ saving' = [saving EXCEPT ![u] = FALSE]
        /\ msg' = [msg EXCEPT ![u] = <<"error.message">>]
        /\ Return(t)
        /\ UNCHANGED <<timeVars, modalVars, galleryVars, avatarVars, title, location, link, cover, calVars, dashVars,
                       pageVars, page, session, storeVars, histVars>>

\* setSaving(false); router.push("/dashboard"): the dashboard is constructed
\* and its effect calls load()
CreateEventReturn(t) ==
    LET task == tasks[t]
        u    == task.u
    IN  /\ task # Idle
        /\ task.op = "createEvent" /\ task.pc = "return"
        /\ saving' = [saving EXCEPT ![u] = FALSE]
        /\ page' = [page EXCEPT ![u] = "dashboard"]
        /\ events' = [events EXCEPT ![u] = << >>]
        /\ loading' = [loading EXCEPT ![u] = TRUE]
        /\ reviewOpen' = [reviewOpen EXCEPT ![u] = FALSE]
        /\ reviewEvent' = [reviewEvent EXCEPT ![u] = NULL]
        /\ savingReview' = [savingReview EXCEPT ![u] = FALSE]
        /\ uploading' = [uploading EXCEPT ![u] = FALSE]
        /\ AvatarConstructed(u)
        /\ ModalConstructed(u)
        /\ tasks' = [tasks EXCEPT ![t] =
               [op |-> "load", pc |-> "load.session", u |-> u, calls |-> << >>,
                data |-> NULL]]
        /\ UNCHANGED <<timeVars, galleryVars, formVars, calVars, pageVars, session, storeVars, histVars>>

-----------------------------------------------------------------------------
(* EventDetailPage: load, uploadVideos, deleteVideo                        *)

\* the link "Ver album" of a done event's card: the page is constructed and
\* its effect calls load()
GoEvent(u, e) ==
    /\ PageClickable(u)
    /\ InFlight(u) = {}
    /\ HasFreeSlot
    /\ e.status = "done"
    /\ page' = [page EXCEPT ![u] = "event"]
    /\ pageEventId' = [pageEventId EXCEPT ![u] = e.id]
    /\ pageEvent' = [pageEvent EXCEPT ![u] = NULL]
    /\ pageVideos' = [pageVideos EXCEPT ![u] = {}]
    /\ pageLoading' = [pageLoading EXCEPT ![u] = TRUE]
    /\ uploadingVideos' = [uploadingVideos EXCEPT ![u] = FALSE]
    /\ pagePhotos' = [pagePhotos EXCEPT ![u] = << >>]
    /\ activeIndex' = [activeIndex EXCEPT ![u] = 0]
    /\ lightboxOpen' = [lightboxOpen EXCEPT ![u] = FALSE]
    /\ Start([op |-> "pageLoad", pc |-> "page.session", u |-> u, calls |-> << >>,
              data |-> NULL, id |-> e.id])
    /\ Click
    /\ UNCHANGED <<timeVars, modalVars, avatarVars, formVars, calVars, dashVars, saving, session, storeVars, lastSave, toggleLog, uncheckedWrites>>

\* load(): setLoading(true); ensureSession(): with no session
\* router.push("/login") and the handler returns, loading still set
PageLoadSession(t) ==
    LET task == tasks[t]
        u    == task.u
    IN  /\ task # Idle
        /\ task.op = "pageLoad" /\ task.pc = "page.session"
        /\ pageLoading' = [pageLoading EXCEPT ![u] = TRUE]
        /\ IF session[u]
           THEN /\ tasks' = [tasks EXCEPT ![t] =
                       [Issue(task, "auth.getSession") EXCEPT !.pc = "events.select"]]
                /\ page' = page
           ELSE ToLogin(t, u)
        /\ UNCHANGED <<timeVars, modalVars, galleryVars, avatarVars, formVars, calVars, dashVars, pageEventId, pageEvent, pageVideos,
                       uploadingVideos, saving, session, storeVars, histVars>>

\* the selects of load(), in the order of the code
PageLoadCalls == <<"events.select", "photos.select", "videos.select", "reviews.select">>

\* what a select of the event page returns
PageSelect(call, id, ok) ==
    IF ~ok THEN NULL
    ELSE IF call = "events.select"
         THEN (IF \E r \in tblEvents : r.id = id
               THEN <<CHOOSE r \in tblEvents : r.id = id>> ELSE NULL)
    ELSE IF call = "videos.select" THEN <<{v \in tblVideos : v.event_id = id}>>
    ELSE IF call = "photos.select" THEN <<{r \in tblPhotos : r.event_id = id}>>
    ELSE <<{r \in tblReviews : r.event_id = id}>>

\* .order("created_at", { ascending: false }): the rows of a select as the
\* list the page keeps, the newest (the greatest id) first
RECURSIVE NewestFirst(_)
NewestFirst(rows) ==
    IF rows = {} THEN << >>
    ELSE LET r == CHOOSE x \in rows : \A y \in rows : y.id <= x.id
         IN  <<r>> \o NewestFirst(rows \ {r})

\* load(): the result of the select before is set (setEvent, setPhotos with
\* setActiveIndex(0), setVideos), and the next select is issued
PageLoadSelect(t, ok) ==
    LET task == tasks[t]
        u    == task.u
        here == u \in Users /\ page[u] = "event"
        i    == CHOOSE k \in 1..Len(PageLoadCalls) : PageLoadCalls[k] = task.pc
    IN  /\ task # Idle
        /\ task.op = "pageLoad"
        /\ task.pc \in {PageLoadCalls[k] : k \in 1..Len(PageLoadCalls)}
        /\ pageEvent' = IF here /\ task.pc = "photos.select"
                        THEN [pageEvent EXCEPT ![u] = task.data] ELSE pageEvent
        /\ pageVideos' = IF here /\ task.pc = "reviews.select"
                         THEN [pageVideos EXCEPT ![u] =
                                  IF task.data = NULL THEN {} ELSE task.data[1]]
                         ELSE pageVideos
        /\ pagePhotos' = IF here /\ task.pc = "videos.select"
                         THEN [pagePhotos EXCEPT ![u] =
                                  IF task.data = NULL THEN << >>
                                  ELSE NewestFirst(task.data[1])]
                         ELSE pagePhotos
        /\ activeIndex' = IF here /\ task.pc = "videos.select"
                          THEN [activeIndex EXCEPT ![u] = 0] ELSE activeIndex
        /\ tasks' = [tasks EXCEPT ![t] =
               [Issue(task, task.pc) EXCEPT
                   !.pc = IF i < Len(PageLoadCalls) THEN PageLoadCalls[i + 1] ELSE "return",
                   !.data = PageSelect(task.pc, task.id, ok)]]
        /\ UNCHANGED <<timeVars, modalVars, lightboxOpen, avatarVars, formVars, calVars, dashVars, pageEventId, pageLoading,
                       uploadingVideos, saving, page, session, storeVars, histVars>>

\* load(): setReviews; setLoading(false)
PageLoadReturn(t) ==
    LET task == tasks[t]
        u    == task.u
    IN  /\ task # Idle
        /\ task.op = "pageLoad" /\ task.pc = "return"
        /\ pageLoading' = [pageLoading EXCEPT ![u] = FALSE]
        /\ Return(t)
        /\ UNCHANGED <<timeVars, modalVars, galleryVars, avatarVars, formVars, calVars, dashVars, pageEventId, pageEvent, pageVideos,
                       uploadingVideos, saving, page, session, storeVars, histVars>>

\* the page shows the album of an event that is loaded and done
AlbumShown(u) ==
    /\ page[u] = "event"
    /\ ~pageLoading[u]
    /\ pageEvent[u] # NULL
    /\ pageEvent[u][1].status = "done"

\* the index after i with no return to the first photo
StepNoWrap(i, n) == i + 1

\* next(): setActiveIndex((i) => (i + 1) % photos.length)
nextIndex(i, n) == (i + 1) % n

\* prev(): setActiveIndex((i) => (i - 1 + photos.length) % photos.length)
prevIndex(i, n) == (i - 1 + n) % n

\* the lightbox is rendered: lightboxOpen && photos.length > 0
LightboxShown(u) == AlbumShown(u) /\ lightboxOpen[u] /\ Len(pagePhotos[u]) > 0

\* the button "Abrir": with photos, setActiveIndex(0); setLightboxOpen(true)
openFirst(u) ==
    /\ AlbumShown(u) /\ ~LightboxShown(u)
    /\ IF Len(pagePhotos[u]) > 0
       THEN /\ activeIndex' = [activeIndex EXCEPT ![u] = 0]
            /\ lightboxOpen' = [lightboxOpen EXCEPT ![u] = TRUE]
       ELSE UNCHANGED <<activeIndex, lightboxOpen>>
    /\ UNCHANGED <<timeVars, modalVars, pagePhotos, avatarVars, formVars, calVars, dashVars, pageVars, saving, page,
                   session, tasks, storeVars, histVars>>

\* a thumbnail of the mosaic, photos.map((p, idx) => ...):
\* setActiveIndex(idx); setLightboxOpen(true)
openPhoto(u, idx) ==
    /\ AlbumShown(u) /\ ~LightboxShown(u)
    /\ idx \in 0..(Len(pagePhotos[u]) - 1)
    /\ activeIndex' = [activeIndex EXCEPT ![u] = idx]
    /\ lightboxOpen' = [lightboxOpen EXCEPT ![u] = TRUE]
    /\ UNCHANGED <<timeVars, modalVars, pagePhotos, avatarVars, formVars, calVars, dashVars, pageVars, saving, page,
                   session, tasks, storeVars, histVars>>

\* "Cerrar", the backdrop or Escape: setLightboxOpen(false)
closeLightbox(u) ==
    /\ LightboxShown(u)
    /\ lightboxOpen' = [lightboxOpen EXCEPT ![u] = FALSE]
    /\ UNCHANGED <<timeVars, modalVars, pagePhotos, activeIndex, avatarVars, formVars, calVars, dashVars, pageVars,
                   saving, page, session, tasks, storeVars, histVars>>

\* prev(), from its buttons or ArrowLeft while the lightbox is open
prev(u) ==
    /\ LightboxShown(u)
    /\ activeIndex' = IF Len(pagePhotos[u]) = 0 THEN activeIndex
                      ELSE [activeIndex EXCEPT
                               ![u] = prevIndex(activeIndex[u], Len(pagePhotos[u]))]
    /\ UNCHANGED <<timeVars, modalVars, pagePhotos, lightboxOpen, avatarVars, formVars, calVars, dashVars, pageVars,
                   saving, page, session, tasks, storeVars, histVars>>

\* next(), from its buttons or ArrowRight while the lightbox is open
next(u) ==
    /\ LightboxShown(u)
    /\ activeIndex' = IF Len(pagePhotos[u]) = 0 THEN activeIndex
                      ELSE [activeIndex EXCEPT
                               ![u] = nextIndex(activeIndex[u], Len(pagePhotos[u]))]
    /\ UNCHANGED <<timeVars, modalVars, pagePhotos, lightboxOpen, avatarVars, formVars, calVars, dashVars, pageVars,
                   saving, page, session, tasks, storeVars, histVars>>

\* uploadVideoToStorage: the object's path,
\* `event-videos/${eventId}/${makeId()}.${ext}`
VideoPath(eventId, id) == <<"event-videos", eventId, id>>

\* uploadVideos(), clicked with n video files chosen
uploadVideos(u, n) ==
    LET task == [op |-> "uploadVideos", pc |-> "videos.upload", u |-> u,
                 calls |-> <<"auth.getSession">>, data |-> NULL,
                 id |-> pageEventId[u], left |-> n]
    IN  /\ AlbumShown(u)
        /\ ~uploadingVideos[u]
        /\ HasFreeSlot
        /\ IF session[u] THEN Start(task) /\ page' = page
           ELSE ToLogin(FreeSlot, u)
        /\ Click
        /\ UNCHANGED <<timeVars, modalVars, galleryVars, avatarVars, formVars, calVars, dashVars, pageVars, saving, session,
                       storeVars, lastSave, toggleLog, uncheckedWrites>>

\* setUploadingVideos(true); the next file goes to the bucket (upsert: false,
\* under a fresh name); an error is thrown
UploadVideosUpload(t, ok) ==
    LET task == tasks[t]
        u    == task.u
        id   == seq + 1
        path == VideoPath(task.id, id)
        done == ok /\ seq < MaxIds
    IN  /\ task # Idle
        /\ task.op = "uploadVideos" /\ task.pc = "videos.upload"
        /\ uploadingVideos' = [uploadingVideos EXCEPT ![u] = TRUE]
        /\ objects' = IF done THEN objects \cup {[bucket |-> "videos", path |-> path]}
                      ELSE objects
        /\ seq' = IF done THEN id ELSE seq
        /\ NoteWrite(task)
        /\ tasks' = [tasks EXCEPT ![t] =
               [Issue(task, "storage.upload") EXCEPT
                   !.pc = IF done THEN "videos.insert" ELSE "failed",
                   !.data = IF done THEN PublicUrl("videos", path) ELSE NULL]]
        /\ UNCHANGED <<timeVars, modalVars, galleryVars, avatarVars, formVars, calVars, dashVars, pageEventId, pageEvent, pageVideos,
                       pageLoading, saving, page, session, tblEvents, tblReviews,
                       tblPhotos, tblVideos, lastSave, toggleLog,
                       started, declined>>

\* the file's row is inserted; an error of the insert is thrown
UploadVideosInsert(t, ok) ==
    LET task == tasks[t]
        u    == task.u
        row  == [id |-> task.data[Len(task.data)], event_id |-> task.id, user_id |-> u,
                 video_url |-> task.data]
    IN  /\ task # Idle
        /\ task.op = "uploadVideos" /\ task.pc = "videos.insert"
        /\ tblVideos' = IF ok THEN tblVideos \cup {row} ELSE tblVideos
        /\ NoteWrite(task)
        /\ tasks' = [tasks EXCEPT ![t] =
               [Issue(task, "videos.insert") EXCEPT
                   !.pc = IF ~ok THEN "failed"
                          ELSE IF task.left > 1 THEN "videos.upload"
                          ELSE "videos.select",
                   !.left = task.left - 1]]
        /\ UNCHANGED <<timeVars, modalVars, galleryVars, avatarVars, formVars, calVars, dashVars, pageVars, saving, page, session,
                       tblEvents, tblReviews, tblPhotos, objects, seq, lastSave, toggleLog,
                       started, declined>>

\* setVideoFiles(null); the event's videos are read again
UploadVideosSelect(t, ok) ==
    LET task == tasks[t]
    IN  /\ task # Idle
        /\ task.op = "uploadVideos" /\ task.pc = "videos.select"
        /\ tasks' = [tasks EXCEPT ![t] =
               [Issue(task, "videos.select") EXCEPT
                   !.pc = "return",
                   !.data = PageSelect("videos.select", task.id, ok)]]
        /\ UNCHANGED <<timeVars, modalVars, galleryVars, avatarVars, formVars, calVars, dashVars, pageVars, saving, page, session,
                       storeVars, histVars>>

\* setVideos(vData ?? []), or the catch's alert; finally
\* setUploadingVideos(false)
UploadVideosReturn(t) ==
    LET task == tasks[t]
        u    == task.u
    IN  /\ task # Idle
        /\ task.op = "uploadVideos" /\ task.pc \in {"return", "failed"}
        /\ pageVideos' = IF page[u] = "event" /\ task.pc = "return"
                         THEN [pageVideos EXCEPT ![u] =
                                  IF task.data = NULL THEN {} ELSE task.data[1]]
                         ELSE pageVideos
        /\ uploadingVideos' = [uploadingVideos EXCEPT ![u] = FALSE]
        /\ Return(t)
        /\ UNCHANGED <<timeVars, modalVars, galleryVars, avatarVars, formVars, calVars, dashVars, pageEventId, pageEvent, pageLoading,
                       saving, page, session, storeVars, histVars>>

\* deleteVideo(v), clicked on a video of the page and confirmed: the row's
\* delete is issued at once; no result is looked at
deleteVideo(u, v, ok) ==
    LET path == getStoragePathFromPublicUrl(v.video_url, "videos")
        task == [op |-> "deleteVideo",
                 pc |-> IF path # NULL THEN "videos.remove" ELSE "videos.select",
                 u |-> u, calls |-> << >>, data |-> NULL, id |-> pageEventId[u],
                 path |-> path]
    IN  /\ AlbumShown(u)
        /\ v \in pageVideos[u]
        /\ HasFreeSlot
        /\ tblVideos' = IF ok THEN {r \in tblVideos : r.id # v.id} ELSE tblVideos
        /\ Start(Issue(task, "videos.delete"))
        /\ NoteWrite(task)
        /\ Click
        /\ UNCHANGED <<timeVars, modalVars, galleryVars, avatarVars, formVars, calVars, dashVars, pageVars, saving, page, session,
                       tblEvents, tblReviews, tblPhotos, objects, seq, lastSave, toggleLog>>

\* storage.from("videos").remove([path])
DeleteVideoRemove(t, ok) ==
    LET task == tasks[t]
    IN  /\ task # Idle
        /\ task.op = "deleteVideo" /\ task.pc = "videos.remove"
        /\ objects' = IF ok THEN objects \ {[bucket |-> "videos", path |-> task.path]}
                      ELSE objects
        /\ NoteWrite(task)
        /\ tasks' = [tasks EXCEPT ![t] =
               [Issue(task, "storage.remove") EXCEPT !.pc = "videos.select"]]
        /\ UNCHANGED <<timeVars, modalVars, galleryVars, avatarVars, formVars, calVars, dashVars, pageVars, saving, page, session,
                       tblEvents, tblReviews, tblPhotos, tblVideos, seq, lastSave, toggleLog,
                       started, declined>>

\* the event's videos are read again
DeleteVideoSelect(t, ok) ==
    LET task == tasks[t]
    IN  /\ task # Idle
        /\ task.op = "deleteVideo" /\ task.pc = "videos.select"
        /\ tasks' = [tasks EXCEPT ![t] =
               [Issue(task, "videos.select") EXCEPT
                   !.pc = "return",
                   !.data = PageSelect("videos.select", task.id, ok)]]
        /\ UNCHANGED <<timeVars, modalVars, galleryVars, avatarVars, formVars, calVars, dashVars, pageVars, saving, page, session,
                       storeVars, histVars>>

\* setVideos(vData ?? [])
DeleteVideoReturn(t) ==
    LET task == tasks[t]
        u    == task.u
    IN  /\ task # Idle
        /\ task.op = "deleteVideo" /\ task.pc = "return"
        /\ pageVideos' = IF page[u] = "event"
                         THEN [pageVideos EXCEPT ![u] =
                                  IF task.data = NULL THEN {} ELSE task.data[1]]
                         ELSE pageVideos
        /\ Return(t)
        /\ UNCHANGED <<timeVars, modalVars, galleryVars, avatarVars, formVars, calVars, dashVars, pageEventId, pageEvent, pageLoading,
                       uploadingVideos, saving, page, session, storeVars, histVars>>

-----------------------------------------------------------------------------
(* The session of a user                                                   *)

\* LoginPage onSubmit with credentials the service accepts:
\* router.push("/dashboard")
SignIn(u) ==
    /\ page[u] = "login"
    /\ InFlight(u) = {}
    /\ HasFreeSlot
    /\ session' = [session EXCEPT ![u] = TRUE]
    /\ page' = [page EXCEPT ![u] = "dashboard"]
    /\ events' = [events EXCEPT ![u] = << >>]
    /\ loading' = [loading EXCEPT ![u] = TRUE]
    /\ reviewOpen' = [reviewOpen EXCEPT ![u] = FALSE]
    /\ reviewEvent' = [reviewEvent EXCEPT ![u] = NULL]
    /\ savingReview' = [savingReview EXCEPT ![u] = FALSE]
    /\ uploading' = [uploading EXCEPT ![u] = FALSE]
    /\ AvatarConstructed(u)
    /\ ModalConstructed(u)
    /\ Start([op |-> "load", pc |-> "load.session", u |-> u, calls |-> << >>,
              data |-> NULL])
    /\ Click
    /\ UNCHANGED <<timeVars, galleryVars, formVars, calVars, pageVars, saving, storeVars, lastSave,
                   toggleLog, uncheckedWrites>>

\* signOut(): auth.signOut(); router.push("/login")
signOut(u) ==
    /\ PageClickable(u)
    /\ InFlight(u) = {}
    /\ session' = [session EXCEPT ![u] = FALSE]
    /\ page' = [page EXCEPT ![u] = "login"]
    /\ Click
    /\ UNCHANGED <<timeVars, modalVars, galleryVars, avatarVars, formVars, calVars, dashVars, pageVars, saving, tasks,
                   storeVars, lastSave, toggleLog, uncheckedWrites>>

\* the session ends while a page is open: it expires, or the user signs out
\* in another tab of the browser
SessionEnds(u) ==
    /\ session[u]
    /\ page[u] \in {"dashboard", "event", "new"}
    /\ session' = [session EXCEPT ![u] = FALSE]
    /\ UNCHANGED <<timeVars, modalVars, galleryVars, avatarVars, formVars, calVars, dashVars, pageVars, saving, page, tasks,
                   storeVars, histVars>>

-----------------------------------------------------------------------------
(* Initial states                                                          *)

\* no helper is being run
TimeIdle ==
    /\ tpc = "idle"
    /\ wall = << >> /\ iso = << >> /\ back = << >>
    /\ instA = 0 /\ instB = 0
    /\ keyA = << >> /\ keyB = << >>

\* new Date() when the dashboard is constructed
Now == DateUTC(2026, 1, 8, 15, 0)

\* the browser's clock is the zone's (UTC-5)
QuitoViewer == -(5 * 60)

\* the pages when the users given are signed in and have the dashboard open
\* with the events given loaded, the others have no page open, and nothing is
\* in flight
PagesInit(table, present) ==
    /\ events = [u \in Users |-> IF u \in present THEN RowsDescending(table) ELSE << >>]
    /\ loading = [u \in Users |-> FALSE]
    /\ reviewOpen = [u \in Users |-> FALSE]
    /\ reviewEvent = [u \in Users |-> NULL]
    /\ savingReview = [u \in Users |-> FALSE]
    /\ uploading = [u \in Users |-> FALSE]
    /\ avatarOpen = [u \in Users |-> FALSE]
    /\ avatarFile = [u \in Users |-> NULL]
    /\ avatarPreview = [u \in Users |-> NULL]
    /\ savingAvatar = [u \in Users |-> FALSE]
    /\ objectUrls = [u \in Users |-> {}]
    /\ urlCount = 0
    /\ profiles = [u \in Users |-> NULL]
    /\ pageEventId = [u \in Users |-> 0]
    /\ pageEvent = [u \in Users |-> NULL]
    /\ pageVideos = [u \in Users |-> {}]
    /\ pageLoading = [u \in Users |-> TRUE]
    /\ uploadingVideos = [u \in Users |-> FALSE]
    /\ rating = [u \in Users |-> 5]
    /\ reviewText = [u \in Users |-> << >>]
    /\ photos = [u \in Users |-> {}]
    /\ pagePhotos = [u \in Users |-> << >>]
    /\ activeIndex = [u \in Users |-> 0]
    /\ lightboxOpen = [u \in Users |-> FALSE]
    /\ title = [u \in Users |-> << >>]
    /\ location = [u \in Users |-> << >>]
    /\ link = [u \in Users |-> << >>]
    /\ cover = [u \in Users |-> NULL]
    /\ msg = [u \in Users |-> NULL]
    /\ saving = [u \in Users |-> FALSE]
    /\ page = [u \in Users |-> IF u \in present THEN "dashboard" ELSE "closed"]
    /\ session = [u \in Users |-> u \in present]
    /\ tasks = [t \in TaskIds |-> Idle]

\* the calendar shows today
CalendarIdle ==
    /\ selectedDay = [u \in Users |-> Now]
    /\ viewerTz = [u \in Users |-> QuitoViewer]
    /\ pickedDay = [u \in Users |-> NULL]

\* the store holds the events given and nothing else
StoreInit(table) ==
    /\ tblEvents = table
    /\ tblReviews = {}
    /\ tblPhotos = {}
    /\ tblVideos = {}
    /\ objects = { [bucket |-> "covers",
                    path |-> getStoragePathFromPublicUrl(r.cover_url, "covers")] :
                   r \in table }
    /\ seq = Cardinality(table)
    /\ lastSave = [k \in (1..MaxIds) \X Users |-> NULL]
    /\ toggleLog = [id \in 1..MaxIds |-> << >>]
    /\ uncheckedWrites = {}
    /\ started = 0
    /\ declined = << >>

-----------------------------------------------------------------------------
(* The conversion helpers, applied to drawn inputs                         *)

RoundTripInit ==
    /\ tpc = "start"
    /\ wall \in WallInputs
    /\ iso = << >> /\ back = << >>
    /\ instA = 0 /\ instB = 0
    /\ keyA = << >> /\ keyB = << >>
    /\ PagesInit({}, Users) /\ CalendarIdle /\ StoreInit({})

ApplyToIso ==
    /\ tpc = "start"
    /\ wall # << >>
    /\ iso' = toIsoFromLocalDatetime(wall)
    /\ tpc' = "iso"
    /\ UNCHANGED <<wall, back, instA, instB, keyA, keyB, calVars, avatarVars, modalVars, galleryVars, formVars, dashVars, pageVars,
                   saving, page, session, tasks, storeVars, histVars>>

ApplyToLocalInput ==
    /\ tpc = "iso"
    /\ back' = toLocalInputFromIso(iso)
    /\ tpc' = "back"
    /\ UNCHANGED <<wall, iso, instA, instB, keyA, keyB, calVars, avatarVars, modalVars, galleryVars, formVars, dashVars, pageVars,
                   saving, page, session, tasks, storeVars, histVars>>

NextRoundTrip == ApplyToIso \/ ApplyToLocalInput

SpecRoundTrip == RoundTripInit /\ [][NextRoundTrip]_vars

YmdInit ==
    /\ tpc = "start"
    /\ wall = << >> /\ iso = << >> /\ back = << >>
    /\ instA \in InstantInputs
    /\ \E gap \in InstantGaps : instB = instA + gap
    /\ keyA = << >> /\ keyB = << >>
    /\ PagesInit({}, Users) /\ CalendarIdle /\ StoreInit({})

ApplyYmd ==
    /\ tpc = "start"
    /\ wall = << >>
    /\ keyA' = ymdInQuito(instA)
    /\ keyB' = ymdInQuito(instB)
    /\ tpc' = "keys"
    /\ UNCHANGED <<wall, iso, back, instA, instB, calVars, avatarVars, modalVars, galleryVars, formVars, dashVars, pageVars,
                   saving, page, session, tasks, storeVars, histVars>>

ApplyYmdAgain ==
    /\ tpc = "keys"
    /\ keyA' = ymdInQuito(instA)
    /\ keyB' = ymdInQuito(instB)
    /\ tpc' = "again"
    /\ UNCHANGED <<wall, iso, back, instA, instB, calVars, avatarVars, modalVars, galleryVars, formVars, dashVars, pageVars,
                   saving, page, session, tasks, storeVars, histVars>>

NextYmd == ApplyYmd \/ ApplyYmdAgain

SpecYmd == YmdInit /\ [][NextYmd]_vars

-----------------------------------------------------------------------------
(* The calendar tab over loaded events                                     *)

\* the date_start values of the calendar's events: around the zone's midnight
\* of 2026-02-08, and none
CalendarStarts ==
    { toISOString(DateUTC(2026, 1, q[1], q[2], q[3])) :
        q \in {<<8, 4, 59>>, <<8, 5, 1>>, <<8, 21, 0>>, <<9, 4, 30>>} } \cup {NULL}

\* an events row as createEvent and saveDateForEvent leave it
CalendarRow(id, start) ==
    [NewEventRow(id, PublicUrl("covers", CoverPath(id))) EXCEPT !.date_start = start]

CalendarTables ==
    { { CalendarRow(id, f[id]) : id \in 1..MaxIds } : f \in [1..MaxIds -> CalendarStarts] }

\* minutes the browser's clock is ahead of UTC
ViewerZones == {-(8 * 60), -(5 * 60), 0, 9 * 60}

\* the days of the picker that are clicked
PickDays == {<<2026, 2, 7>>, <<2026, 2, 8>>, <<2026, 2, 9>>}

CalendarInit ==
    /\ TimeIdle
    /\ \E table \in CalendarTables : PagesInit(table, Users) /\ StoreInit(table)
    /\ selectedDay = [u \in Users |-> Now]
    /\ viewerTz \in [Users -> ViewerZones]
    /\ pickedDay = [u \in Users |-> NULL]

NextCalendar == \E u \in Users, day \in PickDays : SelectDay(u, day)

SpecCalendar == CalendarInit /\ [][NextCalendar]_vars

-----------------------------------------------------------------------------
(* Steps of the handlers in flight, given the outcomes the store's calls    *)
(* can have                                                                *)

LoadStep(t, outcomes) ==
    \/ LoadSession(t)
    \/ \E ok \in outcomes : LoadSelect(t, ok)
    \/ LoadSet(t)

ReviewStep(t, outcomes) ==
    \/ OpenReviewSelectReview(t)
    \/ OpenReviewSelectPhotos(t)
    \/ OpenReviewReturn(t)
    \/ \E ok \in outcomes : SaveReviewUpsert(t, ok)
    \/ SaveReviewReturn(t)

PhotoStep(t, outcomes) ==
    \/ \E ok \in outcomes : UploadPhotosUpload(t, ok)
    \/ \E ok \in outcomes : UploadPhotosInsert(t, ok)
    \/ UploadPhotosSelect(t)
    \/ UploadPhotosReturn(t)

DeleteStep(t, outcomes) ==
    \/ \E ok \in outcomes : DeleteEventRows(t, ok)
    \/ \E ok \in outcomes : DeleteEventFiles(t, ok)

CreateStep(t, outcomes) ==
    \/ \E ok \in outcomes : CreateEventUpload(t, ok)
    \/ \E ok \in outcomes : CreateEventInsert(t, ok)
    \/ CreateEventFailed(t)
    \/ CreateEventReturn(t)

PageStep(t, outcomes) ==
    \/ PageLoadSession(t)
    \/ \E ok \in outcomes : PageLoadSelect(t, ok)
    \/ PageLoadReturn(t)

VideoStep(t, outcomes) ==
    \/ \E ok \in outcomes : UploadVideosUpload(t, ok)
    \/ \E ok \in outcomes : UploadVideosInsert(t, ok)
    \/ \E ok \in outcomes : UploadVideosSelect(t, ok)
    \/ UploadVideosReturn(t)
    \/ \E ok \in outcomes : DeleteVideoRemove(t, ok)
    \/ \E ok \in outcomes : DeleteVideoSelect(t, ok)
    \/ DeleteVideoReturn(t)

\* the store when a run begins: one event, planned or done
LifecycleTables ==
    { {[CalendarRow(1, NULL) EXCEPT !.status = st]} : st \in {"planned", "done"} }

-----------------------------------------------------------------------------
(* toggleDone of two users                                                 *)

ToggleInit ==
    /\ TimeIdle
    /\ CalendarIdle
    /\ \E table \in LifecycleTables : PagesInit(table, Users) /\ StoreInit(table)

NextToggle ==
    \/ \E u \in Users : GoDashboard(u)
    \/ \E u \in Users : \E e \in Range(events[u]), ok \in CallOutcomes :
          toggleDone(u, e, ok)
    \/ \E t \in TaskIds : LoadStep(t, CallOutcomes)

SpecToggle == ToggleInit /\ [][NextToggle]_vars

-----------------------------------------------------------------------------
(* The reviews of two users                                                *)

ReviewInit ==
    /\ TimeIdle
    /\ CalendarIdle
    /\ LET table == {[CalendarRow(1, NULL) EXCEPT !.status = "done"]}
       IN  PagesInit(table, Users) /\ StoreInit(table)

NextReview ==
    \/ \E u \in Users : \E e \in Range(events[u]) : openReviewModal(u, e)
    \/ \E u \in Users : CloseReview(u)
    \/ \E u \in Users : \E stars \in RatingInputs, text \in TextInputs :
          saveReview(u, stars, text)
    \/ \E t \in TaskIds : ReviewStep(t, CallOutcomes)

SpecReview == ReviewInit /\ [][NextReview]_vars

-----------------------------------------------------------------------------
(* Photos, videos and the deletion of an event, by two users               *)

\* the reviews the store holds when a run begins: none, or one of u2
StoredReviews ==
    { {}, {[id |-> 1, event_id |-> 1, user_id |-> "u2", rating |-> 5,
            review_text |-> <<"o", "k">>]} }

DeleteInit ==
    /\ TimeIdle
    /\ CalendarIdle
    /\ \E table \in LifecycleTables :
          /\ PagesInit(table, Users)
          /\ tblEvents = table
          /\ tblReviews \in StoredReviews
          /\ tblPhotos = {}
          /\ tblVideos = {}
          /\ objects = { [bucket |-> "covers",
                          path |-> getStoragePathFromPublicUrl(r.cover_url, "covers")] :
                         r \in table }
          /\ seq = Cardinality(table)
    /\ lastSave = [k \in (1..MaxIds) \X Users |->
                      IF \E r \in tblReviews : k = <<r.event_id, r.user_id>>
                      THEN <<[rating |-> 5, text |-> <<"o", "k">>, n |-> 1]>> ELSE NULL]
    /\ toggleLog = [id \in 1..MaxIds |-> << >>]
    /\ uncheckedWrites = {}
    /\ started = 0
    /\ declined = << >>

NextDelete ==
    \/ \E u \in Users : GoDashboard(u)
    \/ \E u \in Users : \E e \in Range(events[u]) :
          \/ openReviewModal(u, e)
          \/ \E ok \in CallOutcomes : deleteEventCompletely(u, e, ok)
          \/ GoEvent(u, e)
    \/ \E u \in Users : CloseReview(u)
    \/ \E u \in Users : \E n \in 0..MaxFiles : uploadPhotosFromModal(u, n)
    \/ \E u \in Users : \E n \in 1..MaxFiles : uploadVideos(u, n)
    \/ \E u \in Users : \E v \in pageVideos[u], ok \in CallOutcomes : deleteVideo(u, v, ok)
    \/ \E t \in TaskIds :
          \/ LoadStep(t, CallOutcomes)
          \/ OpenReviewSelectReview(t)
          \/ OpenReviewSelectPhotos(t)
          \/ OpenReviewReturn(t)
          \/ PhotoStep(t, CallOutcomes)
          \/ DeleteStep(t, CallOutcomes)
          \/ PageStep(t, CallOutcomes)
          \/ VideoStep(t, CallOutcomes)

SpecDelete == DeleteInit /\ [][NextDelete]_vars

-----------------------------------------------------------------------------
(* Every operation of one user, with a session that can end; the calls a   *)
(* handler makes after its first one succeed                               *)

\* what a user does on the page shown
UserStep(u) ==
    \/ GoDashboard(u)
    \/ GoNew(u)
    \/ setTitle(u, <<" ", "C", "i", "n", "e", " ">>)
    \/ setLocation(u, <<"Q", "u", "i", "t", "o">>)
    \/ setLink(u, <<" ", "h", "t", "t", "p", "s", ":", "/", "/", "a", ".", "e", "c", " ">>)
    \/ setCover(u, <<"jpg">>)
    \/ createEvent(u)
    \/ \E e \in Range(events[u]) :
          \/ \E ok \in CallOutcomes : toggleDone(u, e, ok)
          \/ openReviewModal(u, e)
          \/ \E ok \in CallOutcomes : deleteEventCompletely(u, e, ok)
          \/ GoEvent(u, e)
          \/ \E value \in DateInputs, ok \in CallOutcomes :
                saveDateForEvent(u, e.id, value, ok)
    \/ \E e \in Range(eventsForSelectedDay(u)), ok \in CallOutcomes :
          removeDateForEvent(u, e, ok)
    \/ CloseReview(u)
    \/ \E stars \in RatingInputs, text \in TextInputs : saveReview(u, stars, text)
    \/ \E n \in 0..MaxFiles : uploadPhotosFromModal(u, n)
    \/ \E n \in 1..MaxFiles : uploadVideos(u, n)
    \/ \E v \in pageVideos[u], ok \in CallOutcomes : deleteVideo(u, v, ok)

\* a step of a handler in flight
HandlerStep(t, outcomes) ==
    \/ LoadStep(t, outcomes)
    \/ ReviewStep(t, outcomes)
    \/ PhotoStep(t, outcomes)
    \/ DeleteStep(t, outcomes)
    \/ SaveDateAlert(t)
    \/ CreateStep(t, CallOutcomes)
    \/ PageStep(t, outcomes)
    \/ VideoStep(t, outcomes)

SessionInit ==
    /\ TimeIdle
    /\ CalendarIdle
    /\ \E table \in LifecycleTables : PagesInit(table, {"u1"}) /\ StoreInit(table)

NextSession ==
    \/ \E u \in Users : UserStep(u)
    \/ \E t \in TaskIds : HandlerStep(t, {TRUE})
    \/ \E u \in Users : SignIn(u) \/ signOut(u) \/ SessionEnds(u)

SpecSession == SessionInit /\ [][NextSession]_vars

-----------------------------------------------------------------------------
(* The avatar modal of one user, with a session that can end               *)

AvatarStep(t, outcomes) ==
    \/ \E ok \in outcomes : SaveAvatarUpload(t, ok)
    \/ \E ok \in outcomes : RemoveAvatarRemove(t, ok)
    \/ \E ok \in outcomes : AvatarUpdateProfile(t, ok)
    \/ AvatarReturn(t)

AvatarInit ==
    /\ TimeIdle
    /\ CalendarIdle
    /\ \E table \in LifecycleTables : PagesInit(table, {"u1"}) /\ StoreInit(table)

NextAvatar ==
    \/ \E u \in Users : GoDashboard(u) \/ SignIn(u) \/ SessionEnds(u)
    \/ \E u \in Users : openAvatarModal(u) \/ closeAvatarModal(u)
    \/ \E u \in Users : \E file \in AvatarFiles : onPickAvatar(u, file)
    \/ \E u \in Users : saveAvatar(u) \/ removeAvatar(u)
    \/ \E t \in TaskIds : LoadStep(t, {TRUE}) \/ AvatarStep(t, CallOutcomes)

SpecAvatar == AvatarInit /\ [][NextAvatar]_vars

-----------------------------------------------------------------------------
(* The new-event form of one user                                          *)

CreateInit ==
    /\ TimeIdle
    /\ CalendarIdle
    /\ PagesInit({}, {"u1"}) /\ StoreInit({})

NextCreate ==
    \/ \E u \in Users : GoNew(u) \/ GoDashboard(u) \/ SessionEnds(u) \/ SignIn(u)
    \/ \E u \in Users : \E value \in TitleInputs : setTitle(u, value)
    \/ \E u \in Users : \E value \in LocationInputs : setLocation(u, value)
    \/ \E u \in Users : \E value \in LinkInputs : setLink(u, value)
    \/ \E u \in Users : \E file \in CoverInputs : setCover(u, file)
    \/ \E u \in Users : createEvent(u)
    \/ \E t \in TaskIds : CreateStep(t, CallOutcomes) \/ LoadStep(t, {TRUE})

SpecCreate == CreateInit /\ [][NextCreate]_vars

-----------------------------------------------------------------------------
(* The review modal and the event page of one user while the other toggles *)

GateInit ==
    /\ TimeIdle
    /\ CalendarIdle
    /\ \E table \in LifecycleTables : PagesInit(table, Users) /\ StoreInit(table)

NextGate ==
    \/ \E u \in Users : GoDashboard(u) \/ CloseReview(u)
    \/ \E u \in Users : \E e \in Range(events[u]) :
          \/ \E ok \in CallOutcomes : toggleDone(u, e, ok)
          \/ openReviewModal(u, e)
          \/ GoEvent(u, e)
    \/ \E t \in TaskIds :
          \/ LoadStep(t, {TRUE})
          \/ OpenReviewSelectReview(t)
          \/ OpenReviewSelectPhotos(t)
          \/ OpenReviewReturn(t)
          \/ PageStep(t, {TRUE})

SpecGate == GateInit /\ [][NextGate]_vars

-----------------------------------------------------------------------------
(* The dates of the events, set and removed on one dashboard               *)

\* the date_start and date_end of an events row when a run begins: none, a
\* start on the day the dashboard selects, a start and an end
StoredDates ==
    { <<NULL, NULL>>,
      <<toISOString(DateUTC(2026, 1, 8, 21, 0)), NULL>>,
      <<toISOString(DateUTC(2026, 1, 8, 21, 0)),
        toISOString(DateUTC(2026, 1, 8, 23, 0))>> }

DatedRow(id, st, dates) ==
    [CalendarRow(id, dates[1]) EXCEPT !.status = st, !.date_end = dates[2]]

\* two events: the first of either status and with any of the dates, the
\* second done, with a start and an end
DateTables ==
    { { DatedRow(1, st, dates),
        DatedRow(2, "done", <<toISOString(DateUTC(2026, 1, 8, 21, 0)),
                              toISOString(DateUTC(2026, 1, 8, 23, 0))>>) } :
        st \in {"planned", "done"}, dates \in StoredDates }

DateInit ==
    /\ TimeIdle
    /\ CalendarIdle
    /\ \E table \in DateTables : PagesInit(table, {"u1"}) /\ StoreInit(table)

NextDate ==
    \/ \E u \in Users : \E e \in Range(events[u]) :
          \E value \in DateInputs, ok \in CallOutcomes :
              saveDateForEvent(u, e.id, value, ok)
    \/ \E u \in Users : \E e \in Range(eventsForSelectedDay(u)), ok \in CallOutcomes :
          removeDateForEvent(u, e, ok)
    \/ \E t \in TaskIds : SaveDateAlert(t) \/ LoadStep(t, {TRUE})

SpecDate == DateInit /\ [][NextDate]_vars

-----------------------------------------------------------------------------
(* The calendar tab over any number of loaded events                       *)

MaxLoaded == 9     \* events the store holds

\* the events 1..n, those of a set dated and the others not
LoadedTables ==
    { { CalendarRow(id, IF id \in dated
                        THEN toISOString(DateUTC(2026, 1, 8, 21, 0)) ELSE NULL) :
          id \in 1..n } :
        <<n, dated>> \in { q \in (0..MaxLoaded) \X SUBSET (1..MaxLoaded) :
                              q[2] \subseteq 1..q[1] } }

UndatedInit ==
    /\ TimeIdle
    /\ CalendarIdle
    /\ \E table \in LoadedTables : PagesInit(table, {"u1"}) /\ StoreInit(table)

NextUndated ==
    \/ \E u \in Users : GoDashboard(u)
    \/ \E t \in TaskIds : LoadStep(t, CallOutcomes)

SpecUndated == UndatedInit /\ [][NextUndated]_vars

-----------------------------------------------------------------------------
(* The review modal of one user over two done events, one of them reviewed *)
(* and with a photo                                                        *)

ModalTable == { [CalendarRow(id, NULL) EXCEPT !.status = "done"] : id \in 1..2 }

ModalInit ==
    /\ TimeIdle
    /\ CalendarIdle
    /\ PagesInit(ModalTable, {"u1"})
    /\ tblEvents = ModalTable
    /\ tblReviews = {[id |-> 1, event_id |-> 1, user_id |-> "u1", rating |-> 4,
                      review_text |-> <<"o", "k">>]}
    /\ tblPhotos = {[id |-> 3, event_id |-> 1, user_id |-> "u1",
                     photo_url |-> PublicUrl("albums", AlbumPath(1, 3))]}
    /\ tblVideos = {}
    /\ objects = { [bucket |-> "covers",
                    path |-> getStoragePathFromPublicUrl(r.cover_url, "covers")] :
                   r \in ModalTable }
                    \cup {[bucket |-> "albums", path |-> AlbumPath(1, 3)]}
    /\ seq = 3
    /\ lastSave = [k \in (1..MaxIds) \X Users |->
                      IF k = <<1, "u1">>
                      THEN <<[rating |-> 4, text |-> <<"o", "k">>, n |-> 1]>> ELSE NULL]
    /\ toggleLog = [id \in 1..MaxIds |-> << >>]
    /\ uncheckedWrites = {}
    /\ started = 0
    /\ declined = << >>

\* the modal is opened and closed, and Save is clicked with the fields as
\* they are shown once the modal's requests have been answered
NextModal ==
    \/ \E u \in Users : \E e \in Range(events[u]) : openReviewModal(u, e)
    \/ \E u \in Users : CloseReview(u)
    \/ \E u \in Users :
          ~Running(u, "openReviewModal") /\ saveReview(u, rating[u], reviewText[u])
    \/ \E t \in TaskIds : ReviewStep(t, {TRUE})

SpecModal == ModalInit /\ [][NextModal]_vars

-----------------------------------------------------------------------------
(* The busy flags of one user whose session can end.  A call the page has   *)
(* issued is answered, so a handler in flight takes its next step.         *)

BusyInit ==
    /\ TimeIdle
    /\ CalendarIdle
    /\ \E table \in LifecycleTables : PagesInit(table, {"u1"}) /\ StoreInit(table)

BusyStep(t) ==
    \/ LoadStep(t, CallOutcomes)
    \/ PageStep(t, CallOutcomes)
    \/ ReviewStep(t, CallOutcomes)

NextBusy ==
    \/ \E u \in Users : GoDashboard(u) \/ SignIn(u) \/ SessionEnds(u)
    \/ \E u \in Users : \E e \in Range(events[u]) : GoEvent(u, e) \/ openReviewModal(u, e)
    \/ \E u \in Users : \E stars \in RatingInputs, text \in TextInputs :
          saveReview(u, stars, text)
    \/ \E t \in TaskIds : BusyStep(t)

SpecBusy ==
    BusyInit /\ [][NextBusy]_vars /\ \A t \in TaskIds : WF_vars(BusyStep(t))

-----------------------------------------------------------------------------
\* C1: for every wall-clock string s "YYYY-MM-DDTHH:mm" of a valid date,
\* toLocalInputFromIso(toIsoFromLocalDatetime(s)) = s.
C1_RoundTrip == tpc = "back" => back = wall

\* the calendar date "YYYY-MM-DD" of an instant read as UTC
UtcDateString(t) ==
    LET c == CivilFromDays(t \div MinutesPerDay)
    IN  padStart(StringOfInt(c[1]), 4, "0") \o <<"-">>
            \o padStart(StringOfNat(c[2]), 2, "0") \o <<"-">>
            \o padStart(StringOfNat(c[3]), 2, "0")

\* C2: ymdInQuito gives every instant the YYYY-MM-DD date of (instant minus
\* 5 hours); two instants get equal keys exactly when they lie in the same
\* day of that clock; computing the key again gives the same key.
C2_YmdIsDateOfMinusFive ==
    tpc \in {"keys", "again"} =>
        /\ keyA = ymdInQuito(instA) /\ keyB = ymdInQuito(instB)
        /\ keyA = UtcDateString(instA - 5 * 60)
        /\ keyB = UtcDateString(instB - 5 * 60)
        /\ (keyA = keyB) <=>
              ((instA - 5 * 60) \div MinutesPerDay = (instB - 5 * 60) \div MinutesPerDay)

\* the loaded events of a user that have a date_start whose Quito date key is
\* the key given
LoadedOnKey(u, key) ==
    { e \in Range(events[u]) :
        e.date_start # NULL /\ ymdInQuito(TimeOf(e.date_start)) = key }

\* C7: eventsForSelectedDay holds exactly the loaded events whose date_start
\* is present and whose Quito date key equals the selected day's key, each
\* once, in ascending order of the date_start instant; an event without
\* date_start is never in it.
C7_SelectedDayList ==
    \A u \in Users :
        LET list == eventsForSelectedDay(u)
        IN  /\ Range(list) = LoadedOnKey(u, ymdInQuito(selectedDay[u]))
            /\ Len(list) = Cardinality(Range(list))
            /\ \A i, j \in 1..Len(list) :
                   i < j => TimeOf(list[i].date_start) <= TimeOf(list[j].date_start)
            /\ \A i \in 1..Len(list) : list[i].date_start # NULL

\* C7 witness: a day has been picked, and its list holds two events in an
\* order other than the loaded one, while a dated event of another day and an
\* event without a date are left out
C7_Witness ==
    \E u \in Users :
        LET list == eventsForSelectedDay(u)
        IN  /\ pickedDay[u] # NULL
            /\ Len(list) = 2
            /\ list[1].id < list[2].id
            /\ TimeOf(list[1].date_start) < TimeOf(list[2].date_start)
            /\ \E e \in Range(events[u]) : e.date_start = NULL
            /\ Len(events[u]) = 3

\* the key "YYYY-MM-DD" of a civil day
DayKey(day) ==
    padStart(StringOfNat(day[1]), 4, "0") \o <<"-">>
        \o padStart(StringOfNat(day[2]), 2, "0") \o <<"-">>
        \o padStart(StringOfNat(day[3]), 2, "0")

\* C8: for every zone of the viewer, once day D is picked in the day picker
\* the list of the day is exactly the events whose date_start falls on Quito
\* civil day D.
C8_PickedDayList ==
    \A u \in Users :
        pickedDay[u] # NULL =>
            Range(eventsForSelectedDay(u)) = LoadedOnKey(u, DayKey(pickedDay[u]))

\* the rows of the dependent tables that reference an event id
ReviewsOf(rows, id) == {r \in rows : r.event_id = id}

\* C3: once deleteEventCompletely(ev) has been confirmed and has completed
\* (here: with no failed call on the tables), the store holds no review, photo
\* or video row whose event_id is ev.id, and no event row ev.id.
C3_DeleteLeavesNothing ==
    [][\A t \in TaskIds :
          (/\ tasks[t] # Idle
           /\ tasks[t].op = "deleteEventCompletely"
           /\ ~tasks[t].rowsFailed
           /\ tasks'[t] = Idle)
          => LET id == tasks[t].ev.id
             IN  /\ ReviewsOf(tblReviews', id) = {}
                 /\ ReviewsOf(tblPhotos', id) = {}
                 /\ ReviewsOf(tblVideos', id) = {}
                 /\ \A r \in tblEvents' : r.id # id]_vars

\* the ids of the events the store holds
EventIds == {r.id : r \in tblEvents}

\* C4: in every reachable state every photo, video and review row references
\* an event row that exists.
C4_RowsReferenceEvents ==
    /\ \A r \in tblPhotos : r.event_id \in EventIds
    /\ \A r \in tblVideos : r.event_id \in EventIds
    /\ \A r \in tblReviews : r.event_id \in EventIds

\* C5: two toggleDone updates of an event leave its stored status equal to
\* the status it had before the first, whether or not the list was loaded
\* again in between.
C5_TwoTogglesRestore ==
    \A id \in 1..MaxIds :
        Len(toggleLog[id]) >= 2 =>
            /\ toggleLog[id][2].after = toggleLog[id][1].before
            /\ (Len(toggleLog[id]) = 2 =>
                   \A r \in tblEvents : r.id = id => r.status = toggleLog[id][1].before)

\* C6: no handler issues an insert, update, delete or storage write for a
\* user without a session unless it has asked for the session before.
C6_SessionCheckedBeforeWrite == uncheckedWrites = {}

RowDeletes == {"reviews.delete", "photos.delete", "events.delete"}

FileRemoves == {"albums.remove", "covers.remove"}

\* a deleteEventCompletely in flight
Deleting(task) == task # Idle /\ task.op = "deleteEventCompletely"

\* C10: in deleteEventCompletely the deletes of the review, photo and event
\* rows are all issued before any storage remove; a storage remove, failed or
\* not, changes no row of the tables, and the handler goes on after it.
C10_RowsBeforeFiles ==
    /\ [](\A t \in TaskIds :
            Deleting(tasks[t]) =>
                \A i \in 1..Len(tasks[t].calls) :
                    tasks[t].calls[i] \in FileRemoves =>
                        \A d \in RowDeletes :
                            \E j \in 1..(i - 1) : tasks[t].calls[j] = d)
    /\ [][\A t \in TaskIds :
            (/\ Deleting(tasks[t])
             /\ tasks[t].pc \in FileRemoves
             /\ tasks'[t] # tasks[t])
            => /\ tblEvents' = tblEvents
               /\ tblReviews' = tblReviews
               /\ tblPhotos' = tblPhotos
               /\ tasks'[t].pc \in FileRemoves \cup {"load.session"}]_vars

\* C10 witness: a deleteEventCompletely of an event with a photo has made all
\* its calls, the removal of the album files failed, the row deletes did not,
\* and the rows of the event are gone
C10_Witness ==
    \E t \in TaskIds :
        /\ Deleting(tasks[t])
        /\ tasks[t].pc = "load.session"
        /\ tasks[t].photosToDelete # {}
        /\ tasks[t].filesFailed /\ ~tasks[t].rowsFailed
        /\ \E i \in 1..Len(tasks[t].calls) : tasks[t].calls[i] = "albums.remove"
        /\ ReviewsOf(tblPhotos, tasks[t].ev.id) = {}
        /\ ReviewsOf(tblReviews, tasks[t].ev.id) = {}
        /\ tasks[t].ev.id \notin EventIds

UploadOps == {"uploadPhotosFromModal", "uploadVideos"}

UploadCalls == {"storage.upload"}

InsertCalls == {"photos.insert", "videos.insert"}

\* where a handler is when its next call is the upload of a file
UploadSteps == {"albums.upload", "videos.upload"}

\* a multi-file upload in flight
Uploading(task) == task # Idle /\ task.op \in UploadOps

\* C11: a multi-file upload issues, file by file, the storage upload and
\* then the row insert of the file before the next file's upload; when the
\* upload or the insert of a file fails the handler issues no upload and no
\* insert after it, and no step of the handler removes an object or a row of the
\* files before.
C11_UploadsOneByOne ==
    /\ [](\A t \in TaskIds :
            Uploading(tasks[t]) =>
                \A i \in 1..Len(tasks[t].calls) :
                    /\ tasks[t].calls[i] \in InsertCalls =>
                          i > 1 /\ tasks[t].calls[i - 1] \in UploadCalls
                    /\ (tasks[t].calls[i] \in UploadCalls /\ i > 2) =>
                          tasks[t].calls[i - 1] \in InsertCalls)
    /\ [][\A t \in TaskIds :
            (Uploading(tasks[t]) /\ tasks'[t] # tasks[t]) =>
                /\ objects \subseteq objects'
                /\ tblPhotos \subseteq tblPhotos'
                /\ tblVideos \subseteq tblVideos'
                /\ (/\ tasks[t].pc \in UploadSteps
                    /\ tasks'[t] # Idle
                    /\ objects' = objects) =>
                      tasks'[t].pc \notin UploadSteps \cup InsertCalls
                /\ (/\ tasks[t].pc \in InsertCalls
                    /\ tblPhotos' = tblPhotos
                    /\ tblVideos' = tblVideos) =>
                      tasks'[t].pc \notin UploadSteps \cup InsertCalls
                /\ tasks[t].pc = "failed" =>
                      /\ tasks'[t] = Idle
                      /\ objects' = objects
                      /\ tblPhotos' = tblPhotos
                      /\ tblVideos' = tblVideos]_vars


\* C12: at most one preview URL of a user is unrevoked at any time, and
\* none is while the avatar modal is closed or the dashboard has been left.
C12_PreviewUrlsRevoked ==
    \A u \in Users :
        /\ Cardinality(objectUrls[u]) <= 1
        /\ (~avatarOpen[u] \/ ~Mounted(u)) => objectUrls[u] = {}

\* the handlers of the dashboard that change rows of events
MutationOps == {"toggleDone", "deleteEventCompletely", "saveDateForEvent",
                "removeDateForEvent"}

\* no handler is in flight
Quiet(slots) == \A t \in TaskIds : slots[t] = Idle

\* C13: a mutation handler of the dashboard finishes out of load() (but for
\* saveDateForEvent's alert); a user's events list changes only by being set
\* to the rows a load() has fetched (or to the empty list of a page just
\* constructed); and when a mutation handler finishes on the dashboard with
\* nothing else in flight, the user's list is the store's event rows.
C13_ListIsStoreAfterMutation ==
    [][/\ \A t \in TaskIds :
             (/\ tasks[t] # Idle
              /\ tasks[t].op \in MutationOps
              /\ tasks'[t] = Idle)
             => /\ tasks[t].pc \in {"load.session", "load.set", "alert"}
                /\ (/\ Quiet(tasks')
                    /\ page'[tasks[t].u] = "dashboard"
                    /\ tasks[t].pc # "alert")
                      => events'[tasks[t].u] = RowsDescending(tblEvents')
       /\ \A u \in Users :
             events'[u] # events[u] =>
                \/ \E t \in TaskIds :
                      /\ tasks[t] # Idle
                      /\ tasks[t].u = u /\ tasks[t].pc = "load.set"
                      /\ tasks[t].data # NULL
                      /\ events'[u] = tasks[t].data[1]
                \/ events'[u] = << >> /\ loading'[u]]_vars

\* the links that are well-formed http or https URLs, among those typed
WellFormedLinks == {<<"H", "T", "T", "P", "S", ":", "/", "/", "a", ".", "e", "c">>,
                    <<"h", "t", "t", "p", "s", ":", "/", "/", "a", ".", "e", "c">>}

\* the form's message says the form is invalid
Refused(u) == msg[u] = <<InvalidFormMsg>>

\* C14: with a title that is empty after trimming, a link that is no
\* well-formed http or https URL, or no cover chosen, no createEvent begins
\* (no session lookup, so no redirect to /login, no upload, no insert), and
\* the step that sets the form's message changes no field of the form, no
\* handler in flight and nothing in the store.
C14_InvalidFormNoCall ==
    [][\A u \in Users :
          (/\ page[u] = "new"
           /\ \/ trim(title[u]) = << >>
              \/ trim(link[u]) \notin WellFormedLinks
              \/ cover[u] = NULL)
          => /\ page'[u] # "login"
             /\ \A t \in TaskIds :
                   (/\ tasks[t] = Idle
                    /\ tasks'[t] # Idle
                    /\ tasks'[t].op = "createEvent") => tasks'[t].u # u
             /\ (~Refused(u) /\ Refused(u)') =>
                   /\ UNCHANGED <<title, location, link, cover>>
                   /\ UNCHANGED <<tasks, storeVars, page, uncheckedWrites>>]_vars

\* C14 witness: a form with a title, a location and a cover, and a link that
\* is a URL of another scheme, has been submitted and refused, with nothing
\* in flight and no event stored
C14_Witness ==
    \E u \in Users :
        /\ page[u] = "new"
        /\ Refused(u)
        /\ titleOk(u) /\ locOk(u) /\ coverOk(u)
        /\ UrlProtocol(trim(link[u])) = <<"f", "t", "p", ":">>
        /\ Quiet(tasks)
        /\ tblEvents = {}

\* the event rows a step adds to the store
InsertedEvents == {r \in tblEvents' : r.id \notin EventIds}

\* C15: every event row that enters the store is planned and has no
\* date_start and no date_end, and it is createEvent's insert that adds it.
C15_EventsInsertedPlanned ==
    [][\A r \in InsertedEvents :
          /\ r.status = "planned"
          /\ r.date_start = NULL
          /\ r.date_end = NULL
          /\ \E t \in TaskIds :
                /\ tasks[t] # Idle
                /\ tasks[t].op = "createEvent" /\ tasks[t].pc = "events.insert"
                /\ tasks'[t] # tasks[t]]_vars

\* C15 witness: createEvent has inserted its row next to the event the run
\* began with, and the handler has gone on to the dashboard
C15_Witness ==
    \E r \in tblEvents, t \in TaskIds :
        /\ r.id > 1
        /\ r.status = "planned" /\ r.date_start = NULL /\ r.date_end = NULL
        /\ tasks[t] # Idle
        /\ tasks[t].op = "createEvent" /\ tasks[t].pc = "return"
        /\ r.cover_url = tasks[t].data

\* a toggleDone of user u for event id takes effect in this step
Toggled(u, id) ==
    /\ Len(toggleLog'[id]) = Len(toggleLog[id]) + 1
    /\ toggleLog'[id][Len(toggleLog'[id])].by = u

\* C16: every stored event is planned or done; and a toggleDone clicked on a
\* card that shows the event's stored status makes a planned event done and
\* a done event planned.
C16_TwoStatuses ==
    /\ [](\A r \in tblEvents : r.status \in {"planned", "done"})
    /\ [][\A u \in Users, id \in 1..MaxIds :
            Toggled(u, id) =>
               \A r \in tblEvents, e \in Range(events[u]), q \in tblEvents' :
                  (r.id = id /\ e.id = id /\ q.id = id /\ e.status = r.status)
                  => /\ r.status = "planned" => q.status = "done"
                     /\ r.status = "done" => q.status = "planned"]_vars

\* C16 witness: an event has been toggled from planned to done and from done
\* back to planned
C16_Witness ==
    \E id \in 1..MaxIds :
        /\ \E i \in 1..Len(toggleLog[id]) :
              toggleLog[id][i].before = "planned" /\ toggleLog[id][i].after = "done"
        /\ \E i \in 1..Len(toggleLog[id]) :
              toggleLog[id][i].before = "done" /\ toggleLog[id][i].after = "planned"
        /\ \E r \in tblEvents : r.id = id /\ r.status = "planned"

\* the stored status of an event, NULL when the store has no such row
StoredStatus(id) ==
    IF \E r \in tblEvents : r.id = id
    THEN <<(CHOOSE r \in tblEvents : r.id = id).status>>
    ELSE NULL

\* C17: whenever the review-and-photos modal is open for an event, or the
\* event page shows an event's gallery, reviews and videos, the event's
\* stored status is done.
C17_BrowsingOnlyDone ==
    \A u \in Users :
        /\ (Mounted(u) /\ ModalShown(u)) =>
              StoredStatus(reviewEvent[u][1].id) = <<"done">>
        /\ AlbumShown(u) => StoredStatus(pageEventId[u]) = <<"done">>

\* the instant (in minutes) of a wall-clock value "YYYY-MM-DDTHH:mm" read as
\* a time of the day of the civil date it names, in UTC
WallClockInstant(value) ==
    LET y  == NumberOf(SubSeq(value, 1, Len(value) - 12))
        m  == NumberOf(SubSeq(value, Len(value) - 10, Len(value) - 9))
        d  == NumberOf(SubSeq(value, Len(value) - 7, Len(value) - 6))
        hh == NumberOf(SubSeq(value, Len(value) - 4, Len(value) - 3))
        mi == NumberOf(SubSeq(value, Len(value) - 1, Len(value)))
    IN  DaysFromCivil(y, m, d) * MinutesPerDay + hh * 60 + mi

\* a step in which saveDateForEvent's update took effect, of task t
DateSaved(t) ==
    /\ tasks[t] = Idle /\ tasks'[t] # Idle
    /\ tasks'[t].op = "saveDateForEvent" /\ tasks'[t].pc = "load.session"

\* C18: saveDateForEvent, for an event of either status and with or without
\* a date, sets the event's date_start to the instant of the entered
\* wall-clock value plus 5 hours, and changes neither the event's status nor
\* any field of any other event.
C18_SaveDateSetsStart ==
    [][\A t \in TaskIds : DateSaved(t) =>
          \A r \in tblEvents :
              IF r.id = tasks'[t].id
              THEN \E q \in tblEvents' :
                      /\ q.id = r.id /\ q.status = r.status
                      /\ q.date_start # NULL
                      /\ TimeOf(q.date_start)
                             = WallClockInstant(tasks'[t].value) + 5 * 60
              ELSE r \in tblEvents']_vars

\* a step in which removeDateForEvent's update took effect, of task t
DateRemoved(t) ==
    /\ tasks[t] = Idle /\ tasks'[t] # Idle
    /\ tasks'[t].op = "removeDateForEvent" /\ tasks'[t].wrote

\* C19: no stored event has a date_end without a date_start; and
\* removeDateForEvent, once confirmed, sets the event's date_start and
\* date_end to absent and leaves its status as it was.
C19_DatesTogether ==
    /\ [](\A r \in tblEvents : r.date_end # NULL => r.date_start # NULL)
    /\ [][\A t \in TaskIds : DateRemoved(t) =>
            \A r \in tblEvents :
                r.id = tasks'[t].id =>
                   \E q \in tblEvents' :
                      /\ q.id = r.id /\ q.status = r.status
                      /\ q.date_start = NULL /\ q.date_end = NULL]_vars

\* C19 witness: the date of the event that had a start and an end has been
\* removed, and the handler that removed it is still in flight
C19_Witness ==
    \E t \in TaskIds :
        /\ tasks[t] # Idle
        /\ tasks[t].op = "removeDateForEvent" /\ tasks[t].wrote /\ tasks[t].id = 2
        /\ \E r \in tblEvents :
              /\ r.id = 2 /\ r.status = "done"
              /\ r.date_start = NULL /\ r.date_end = NULL

\* C20: every reviews row written by saveReview has a rating that is an
\* integer from 1 to 5 or is absent, whatever the rating field held when Save
\* was clicked.
C20_RatingInRange ==
    \A k \in DOMAIN lastSave :
        lastSave[k] # NULL =>
           \A r \in tblReviews :
              (r.event_id = k[1] /\ r.user_id = k[2] /\ r.rating \in Int)
              => r.rating \in 1..5

\* the civil date <<y, m, d>> a wall-clock value "YYYY-MM-DDTHH:mm" names,
\* and its hour
WallClockDate(value) ==
    <<NumberOf(SubSeq(value, 1, Len(value) - 12)),
      NumberOf(SubSeq(value, Len(value) - 10, Len(value) - 9)),
      NumberOf(SubSeq(value, Len(value) - 7, Len(value) - 6))>>

WallClockHour(value) == NumberOf(SubSeq(value, Len(value) - 4, Len(value) - 3))

\* the civil date that follows y-m-d
NextCivilDay(ymd) ==
    IF ymd[3] < DaysInMonth(ymd[1], ymd[2]) THEN <<ymd[1], ymd[2], ymd[3] + 1>>
    ELSE IF ymd[2] < 12 THEN <<ymd[1], ymd[2] + 1, 1>>
    ELSE <<ymd[1] + 1, 1, 1>>

\* C21: toIsoFromLocalDatetime(s) is the instant exactly 5 hours after the
\* wall-clock reading s taken as UTC, for every valid s; when the hour of s
\* is 19..23 it falls on the next calendar day, carried over month ends, year
\* ends and 29 February.
C21_IsoIsWallPlusFive ==
    tpc \in {"iso", "back"} =>
        /\ DateParse(iso) = WallClockInstant(wall) + 5 * 60
        /\ WallClockHour(wall) >= 19 =>
              CivilFromDays(DateParse(iso) \div MinutesPerDay)
                 = NextCivilDay(WallClockDate(wall))

\* the handlers of the dates whose update the store answered with an error
DateOps == {"saveDateForEvent", "removeDateForEvent"}

UpdateFailed(t) ==
    tasks[t] # Idle /\ tasks[t].op \in DateOps /\ ~tasks[t].wrote

\* C22: an error a collaborator returns to a user-triggered operation is shown
\* to the user with the collaborator's message text; here for the handlers of
\* the dates: once the update has failed, the handler is at its
\* alert(error.message).
C22_ErrorsShown == \A t \in TaskIds : UpdateFailed(t) => tasks[t].pc = "alert"

\* C23: every loaded event with no date_start is on a card of the calendar
\* tab's undated list, however many there are; and the dated and the undated
\* events are disjoint and together all the loaded events.
C23_UndatedSurfaced ==
    \A u \in Users :
        Mounted(u) =>
           /\ \A e \in Range(events[u]) :
                 e.date_start = NULL => e \in Range(UndatedCards(u))
           /\ Range(eventsWithDate(u)) \cap Range(eventsNoDate(u)) = {}
           /\ Range(eventsWithDate(u)) \cup Range(eventsNoDate(u)) = Range(events[u])

\* C24: a busy flag that an operation has set is false again later, on every
\* path of the operation: here loading of the dashboard (load), loading of
\* the event page (its load) and savingReview (saveReview), with calls that
\* succeed or fail and a session that can be missing.
C24_BusyFlagsFall ==
    \A u \in Users :
        /\ (loading[u] /\ Running(u, "load")) ~> ~loading[u]
        /\ (pageLoading[u] /\ Running(u, "pageLoad")) ~> ~pageLoading[u]
        /\ (savingReview[u] /\ Running(u, "saveReview")) ~> ~savingReview[u]

\* the rating, the text and the photos the store holds for user u and the
\* event the modal names
StoredRating(u) ==
    LET mine == {r \in tblReviews :
                    r.event_id = reviewEvent[u][1].id /\ r.user_id = u}
    IN  IF mine = {} THEN 5 ELSE (CHOOSE r \in mine : TRUE).rating

StoredText(u) ==
    LET mine == {r \in tblReviews :
                    r.event_id = reviewEvent[u][1].id /\ r.user_id = u}
    IN  IF mine = {} \/ (CHOOSE r \in mine : TRUE).review_text = NULL THEN << >>
        ELSE (CHOOSE r \in mine : TRUE).review_text

StoredPhotos(u) == {p \in tblPhotos : p.event_id = reviewEvent[u][1].id}

\* C25: once every request of openReviewModal has been answered, the rating,
\* the text and the photos the open modal shows are those of the event it
\* names (reviewEvent) and of the user, whatever the order of opening,
\* closing and the answers.
C25_ModalShowsItsEvent ==
    \A u \in Users :
        (/\ Mounted(u) /\ reviewOpen[u] /\ reviewEvent[u] # NULL
         /\ ~Running(u, "openReviewModal") /\ ~Running(u, "saveReview"))
        => /\ rating[u] = StoredRating(u)
           /\ reviewText[u] = StoredText(u)
           /\ photos[u] = StoredPhotos(u)

\* C26: for every zone of the viewer, a day of the picker is marked as having
\* events exactly when picking that day gives a list of the day that is not
\* empty.
C26_MarkedIffListed ==
    \A u \in Users :
        pickedDay[u] # NULL =>
            (hasEvent(u, pickedDay[u]) <=> Len(eventsForSelectedDay(u)) > 0)

-----------------------------------------------------------------------------
(* The gallery of the event page                                           *)

MaxPhotos == 3     \* photos an album holds

\* a photo row of an album
GalleryPhoto(e, id) ==
    [id |-> id, event_id |-> e, user_id |-> "u1",
     photo_url |-> PublicUrl("albums", AlbumPath(e, id))]

\* the albums of two done events: from none to MaxPhotos photos for the
\* first, one photo for the second
GalleryInit ==
    /\ TimeIdle
    /\ CalendarIdle
    /\ PagesInit(ModalTable, {"u1"})
    /\ tblEvents = ModalTable
    /\ tblReviews = {}
    /\ \E k \in 0..MaxPhotos :
          tblPhotos = {GalleryPhoto(1, 2 + i) : i \in 1..k}
                          \cup {GalleryPhoto(2, 3 + MaxPhotos)}
    /\ tblVideos = {}
    /\ objects = { [bucket |-> "covers",
                    path |-> getStoragePathFromPublicUrl(r.cover_url, "covers")] :
                   r \in ModalTable }
                    \cup { [bucket |-> "albums", path |-> AlbumPath(p.event_id, p.id)] :
                           p \in tblPhotos }
    /\ seq = 3 + MaxPhotos
    /\ lastSave = [k \in (1..MaxIds) \X Users |-> NULL]
    /\ toggleLog = [id \in 1..MaxIds |-> << >>]
    /\ uncheckedWrites = {}
    /\ started = 0
    /\ declined = << >>

\* the albums are opened from the dashboard and their photos are looked at
NextGallery ==
    \/ \E u \in Users : \E e \in Range(events[u]) : GoEvent(u, e)
    \/ \E u \in Users : GoDashboard(u)
    \/ \E t \in TaskIds : LoadStep(t, {TRUE})
    \/ \E t \in TaskIds : PageStep(t, CallOutcomes)
    \/ \E u \in Users : openFirst(u)
    \/ \E u \in Users : \E idx \in 0..(MaxPhotos - 1) : openPhoto(u, idx)
    \/ \E u \in Users : closeLightbox(u)
    \/ \E u \in Users : prev(u)
    \/ \E u \in Users : next(u)

SpecGallery == GalleryInit /\ [][NextGallery]_vars

\* n applications of next() to the index i of a list of n photos
RECURSIVE NextTimes(_, _, _)
NextTimes(k, i, n) == IF k = 0 THEN i ELSE NextTimes(k - 1, nextIndex(i, n), n)

\* C27: whenever the photo list of the event page is not empty, activeIndex
\* is within 0..photos.length-1, after load, the thumbnails, prev and next;
\* next takes the last photo to the first and prev the first to the last,
\* prev undoes next, and photos.length applications of next return to the
\* index they started from.
C27_ActiveIndexInRange ==
    \A u \in Users :
        LET n == Len(pagePhotos[u])
            i == activeIndex[u]
        IN  n > 0 =>
                /\ i \in 0..(n - 1)
                /\ nextIndex(n - 1, n) = 0
                /\ prevIndex(0, n) = n - 1
                /\ prevIndex(nextIndex(i, n), n) = i
                /\ NextTimes(n, i, n) = i

\* the lightbox shows the last photo of an album of MaxPhotos photos, the
\* photo from which next() returns to the first
C27_Witness ==
    /\ LightboxShown("u1")
    /\ Len(pagePhotos["u1"]) = MaxPhotos
    /\ activeIndex["u1"] = MaxPhotos - 1

-----------------------------------------------------------------------------
(* The confirm dialogs answered with Cancel                                *)

\* a handler that went on after its dialog was declined: its first call is
\* in flight
ConfirmIgnored(u, handler) ==
    /\ started < MaxStarted
    /\ started' = started + 1
    /\ declined' = Append(declined, handler)
    /\ HasFreeSlot
    /\ Start([op |-> handler, pc |-> "return", u |-> u, calls |-> <<handler>>,
              data |-> NULL])
    /\ UNCHANGED <<timeVars, calVars, dashVars, avatarVars, formVars, modalVars, galleryVars, pageVars, saving,
                   page, session, storeVars, lastSave, toggleLog, uncheckedWrites>>

\* const ok = confirm(...); if (!ok) return;
Declined(u, handler) ==
    /\ started < MaxStarted
    /\ started' = started + 1
    /\ declined' = Append(declined, handler)
    /\ UNCHANGED <<timeVars, calVars, dashVars, avatarVars, formVars, modalVars, galleryVars, pageVars, saving,
                   page, session, tasks, storeVars, lastSave, toggleLog, uncheckedWrites>>

\* deleteEventCompletely(e), clicked on a card, the dialog declined
deleteEventDeclined(u, ev) ==
    /\ PageClickable(u)
    /\ ~loading[u]
    /\ Declined(u, "deleteEventCompletely")

\* removeDateForEvent(e.id), clicked in the selected day's list, the dialog
\* declined
removeDateDeclined(u, e) ==
    /\ PageClickable(u)
    /\ Declined(u, "removeDateForEvent")

\* removeAvatar(), clicked in the modal, the dialog declined
removeAvatarDeclined(u) ==
    /\ Mounted(u)
    /\ avatarOpen[u]
    /\ ~savingAvatar[u]
    /\ Declined(u, "removeAvatar")

\* deleteVideo(v), clicked on a video of the page, the dialog declined
deleteVideoDeclined(u, v) ==
    /\ AlbumShown(u)
    /\ v \in pageVideos[u]
    /\ Declined(u, "deleteVideo")

\* a dated done event with a video and an avatar of the user in the store
ConfirmTable == { DatedRow(1, "done", <<toISOString(DateUTC(2026, 1, 8, 21, 0)), NULL>>) }

ConfirmInit ==
    /\ TimeIdle
    /\ CalendarIdle
    /\ PagesInit(ConfirmTable, {"u1"})
    /\ tblEvents = ConfirmTable
    /\ tblReviews = {}
    /\ tblPhotos = {}
    /\ tblVideos = {[id |-> 2, event_id |-> 1, user_id |-> "u1",
                     video_url |-> PublicUrl("videos", VideoPath(1, 2))]}
    /\ objects = { [bucket |-> "covers",
                    path |-> getStoragePathFromPublicUrl(r.cover_url, "covers")] :
                   r \in ConfirmTable }
                    \cup {[bucket |-> "videos", path |-> VideoPath(1, 2)],
                          [bucket |-> "avatars", path |-> AvatarPath("u1", "png")]}
    /\ seq = 2
    /\ lastSave = [k \in (1..MaxIds) \X Users |-> NULL]
    /\ toggleLog = [id \in 1..MaxIds |-> << >>]
    /\ uncheckedWrites = {}
    /\ started = 0
    /\ declined = << >>

\* the four handlers that ask first, with either answer
NextConfirm ==
    \/ \E u \in Users : GoDashboard(u)
    \/ \E u \in Users : openAvatarModal(u) \/ closeAvatarModal(u)
    \/ \E u \in Users : \E e \in Range(events[u]) : GoEvent(u, e)
    \/ \E u \in Users : \E e \in Range(events[u]) : deleteEventCompletely(u, e, TRUE)
    \/ \E u \in Users : \E e \in Range(events[u]) : deleteEventDeclined(u, e)
    \/ \E u \in Users : \E e \in Range(events[u]) : removeDateForEvent(u, e, TRUE)
    \/ \E u \in Users : \E e \in Range(events[u]) : removeDateDeclined(u, e)
    \/ \E u \in Users : removeAvatar(u) \/ removeAvatarDeclined(u)
    \/ \E u \in Users : \E v \in pageVideos[u] : deleteVideo(u, v, TRUE)
    \/ \E u \in Users : \E v \in pageVideos[u] : deleteVideoDeclined(u, v)
    \/ \E t \in TaskIds :
          \/ LoadStep(t, {TRUE})
          \/ DeleteStep(t, {TRUE})
          \/ PageStep(t, {TRUE})
          \/ DeleteVideoRemove(t, TRUE) \/ DeleteVideoSelect(t, TRUE) \/ DeleteVideoReturn(t)
          \/ RemoveAvatarRemove(t, TRUE) \/ AvatarUpdateProfile(t, TRUE) \/ AvatarReturn(t)

SpecConfirm == ConfirmInit /\ [][NextConfirm]_vars

\* C28: when the user declines the confirm dialog of deleteEventCompletely,
\* removeDateForEvent, removeAvatar or deleteVideo, the handler issues no
\* store or storage call and leaves every row, every stored file and the
\* state of the pages as they were.
C28_DeclinedChangesNothing ==
    [][declined' # declined =>
          UNCHANGED <<tasks, storeVars, calVars, dashVars, avatarVars, formVars, modalVars,
                      galleryVars, pageVars, saving, page, session>>]_vars

\* each of the four dialogs has been declined in some run: here deleteVideo
\* after removeAvatar
C28_Witness ==
    /\ Len(declined) >= 2
    /\ declined[1] = "removeAvatar"
    /\ declined[2] = "deleteVideo"
    /\ tblVideos # {}

-----------------------------------------------------------------------------
(* The avatar objects of one user                                          *)

\* image files under the size limit, by the extension of their name
AvatarImages ==
    { [ext |-> x, image |-> TRUE, heavy |-> FALSE] : x \in {"png", "jpg", "gif"} }

\* the user's photo is chosen, saved and removed, one handler after the
\* other; every call succeeds
NextAvatars ==
    \/ \E u \in Users : openAvatarModal(u) \/ closeAvatarModal(u)
    \/ \E u \in Users : \E file \in AvatarImages : onPickAvatar(u, file)
    \/ \E u \in Users : InFlight(u) = {} /\ saveAvatar(u)
    \/ \E u \in Users : InFlight(u) = {} /\ removeAvatar(u)
    \/ \E t \in TaskIds : AvatarStep(t, {TRUE})

SpecAvatars == AvatarInit /\ [][NextAvatars]_vars

\* the avatar objects of a user in the bucket
AvatarObjects(u) ==
    { o \in objects : o.bucket = "avatars" /\ o.path[1] = u }

\* removeAvatar() of the task t ends with no error caught
RemoveAvatarCompletes(t) ==
    /\ tasks[t] # Idle
    /\ tasks[t].op = "removeAvatar"
    /\ tasks[t].pc = "close"
    /\ tasks'[t] = Idle

\* C29: after removeAvatar completes without error for a user, the avatars
\* bucket holds no avatar object of that user and the profile's avatar_url
\* is absent, whatever the extensions of the files saved before; and after
\* any sequence of saveAvatar calls the bucket holds at most one avatar
\* object per user.
C29_OneAvatarAtMost ==
    [][/\ \A t \in TaskIds, u \in Users :
             RemoveAvatarCompletes(t) /\ tasks[t].u = u =>
                 AvatarObjects(u)' = {} /\ profiles'[u] = NULL
        /\ \A w \in Users : Cardinality(AvatarObjects(w)') <= 1]_vars

\* createEvent() of the task t ends with an error message
CreateEventFails(t) ==
    /\ tasks[t] # Idle
    /\ tasks[t].op = "createEvent"
    /\ tasks[t].pc = "failed"
    /\ tasks'[t] = Idle

\* C30: when createEvent ends with an error message (the cover's upload or
\* the row's insert failed), the store is as it was before the submit: no
\* events row was added and no cover object of the submit remains in the
\* covers bucket.
C30_FailedCreateLeavesNothing ==
    [][\A t \in TaskIds :
          CreateEventFails(t) /\ tasks[t].data # NULL =>
              LET coverUrl == tasks[t].data
                  path     == getStoragePathFromPublicUrl(coverUrl, "covers")
              IN  /\ \A r \in tblEvents' : r.cover_url # coverUrl
                  /\ [bucket |-> "covers", path |-> path] \notin objects']_vars

=============================================================================
